---- MODULE Spec2Model ----
(***************************************************************************)
(* Payment API: idempotent creation, batch orchestration and the status   *)
(* transition engine, as a state machine over the durable store            *)
(* (payments, payment_histories, idempotency_keys) and the requests in     *)
(* flight.  Every await of a store operation is a step boundary.           *)
(***************************************************************************)
EXTENDS Integers, Sequences, FiniteSets, TLC

(* ------------------------------ bounds -------------------------------- *)
\* concurrent HTTP requests on POST /payments
NumReqs == 3
\* concurrent submissions to the batch endpoint
NumBatchReqs == 2
\* distinct client-supplied idempotency keys (UUIDs)
NumKeys == 2
\* largest accepted batch that is enumerated item by item
MaxItems == 3
\* largest batch submitted more than once
MaxRetxItems == 2
\* options.maxConcurrentWorkers of the BatchPaymentService under check
MaxConcurrentWorkers == 2
\* options.maxRetryAttempts of the BatchPaymentService under check
MaxRetryAttempts == 3
\* concurrent webhook status updates
NumTransReqs == 2
\* Number of racing status-update requests.
NumRaceReqs == 3
\* Listing: rows of the small stores, their creation times (ms), the
\* payments created while a client pages, and the rows of the store of the
\* documented example (A..E).
MaxRows == 3
MaxTime == 3
MaxInserts == 2
ExampleRows == 5
\* Requests sent with any kind of Idempotency-Key header.
NumGuardReqs == 2
\* Creation requests sent under one key while records expire; the hours the
\* clock advances by in one step and the last hour considered.
NumExpiryReqs == 3
\* Creation requests sent under one key while the payment changes status.
NumSnapReqs == 2
\* Items of the batch that runs beside the other operations.
NumCoreItems == 1
TickHours == 12
MaxClock == 36

(* ------------------------- program constants -------------------------- *)
\* `payments.length > 100` in processBatch, `.max(100)` in batchPaymentSchema
MaxBatchSize == 100
\* `Math.min(query.limit || 20, 100)` in listPayments
DefaultPageSize == 20
MaxPageSize == 100
\* options.retryDelayMs (BATCH_RETRY_DELAY_MS, default 1000)
RetryDelayMs == 1000

VARIABLES
    payments,   \* table payments: set of rows
    histories,  \* table payment_histories: sequence of rows in insertion order
    idemKeys,   \* table idempotency_keys: set of rows
    reqs,       \* creation / batch requests in flight, by request number
    treqs,      \* status-update requests in flight, by request number
    clock       \* the system clock (new Date()), in hours

vars == <<payments, histories, idemKeys, reqs, treqs, clock>>

(* ------------------------------ values -------------------------------- *)
Statuses == {"pending", "paid", "reversed"}

\* An Idempotency-Key header / a Payment.idempotencyKey.  u is the UUID
\* (0: header absent), idx the "-<index>" suffix a batch item appends (-1: no
\* suffix), wf whether the UUID part is syntactically a UUID.
ClientKey(k) == [u |-> k, idx |-> -1, wf |-> TRUE]
ClientKeys == {ClientKey(k) : k \in 1..NumKeys}

\* uuidv4(): a fresh identifier at every call; the call is identified by the
\* request, the item index, the attempt and the call site (1: the batch item
\* key, 2: the payment id).
Uuid(r, idx, attempt, site) == 10000 * site + 1000 * r + 10 * idx + attempt

\* Request bodies of POST /payments: the payment described (content) and the
\* order in which the client wrote its fields.  Content "X" violates
\* createPaymentSchema (e.g. amount_cents missing).
PaymentBody(c, o) == [content |-> c, order |-> o]
SingleBodies == {PaymentBody("A", 1), PaymentBody("A", 2), PaymentBody("B", 1), PaymentBody("X", 1)}

\* Request bodies of POST /payments/batch: n valid items, alternately A and B.
BatchBody(n) ==
    [payments |-> [k \in 1..n |-> PaymentBody(IF k % 2 = 1 THEN "A" ELSE "B", 1)]]
BatchSizes == (0..MaxItems) \cup {MaxBatchSize + 1}
BatchBodies == {BatchBody(n) : n \in BatchSizes}

\* Messages of the errors Payment.create rejects with inside a batch.
ErrMessages == {"Temporary failure", "Persistent failure"}

NoHash == [sha256 |-> <<>>]
NoResp == [code |-> 0, body |-> [none |-> TRUE]]
NoRet == [kind |-> "none"]

(* --------------------------- pure functions --------------------------- *)
\* JSON.stringify(req.body): the text follows the fields in the order the
\* body holds them, so it depends on the content and on the field order.
JSONStringifyBody(body) ==
    IF "payments" \in DOMAIN body
    THEN <<"payments", [k \in DOMAIN body.payments |->
                           <<body.payments[k].content, body.payments[k].order>>]>>
    ELSE <<body.content, body.order>>

\* crypto.createHash('sha256').update(text).digest('hex'), collision-free.
Sha256(text) == [sha256 |-> text]

RequestHash(body) == Sha256(JSONStringifyBody(body))

\* JSON.stringify(responseData) / JSON.parse(existingKey.responseData): the
\* responses stored hold only strings, numbers, arrays without holes and
\* objects without undefined fields, which the text form keeps.
JSONStringify(v) == [json |-> v]
JSONParse(text) == text.json

\* /^[0-9a-f]{8}-[0-9a-f]{4}-[1-5][0-9a-f]{3}-[89ab][0-9a-f]{3}-[0-9a-f]{12}$/i
MutUuidRegexTest(key) == TRUE
UuidRegexTest(key) == key.wf /\ key.idx = -1

\* createPaymentSchema / batchPaymentSchema (Joi)
CreatePaymentSchemaOk(body) == body.content \in {"A", "B"}
BatchPaymentSchemaOk(body) ==
    /\ Len(body.payments) >= 1
    /\ Len(body.payments) <= MaxBatchSize
    /\ \A k \in DOMAIN body.payments : CreatePaymentSchemaOk(body.payments[k])

CheckoutUrl(paymentId) == <<"checkout", paymentId>>

(* ------------------------------ the store ----------------------------- *)
\* Payment.create: the row inserted; refused by the unique index on
\* idempotency_key (and the primary key).
MutPaymentCreateAllowed(key, id) == TRUE
MutCreateAllowedWhenNoRecord(key, id) ==
    (\A k \in idemKeys : k.key # key) /\ (\A p \in payments : p.id # id)
MutCreateAllowedById(key, id) == \A p \in payments : p.id # id
PaymentCreateAllowed(key, id) ==
    \A p \in payments : p.idempotencyKey # key /\ p.id # id

PaymentRow(id, key, body) ==
    [id |-> id, idempotencyKey |-> key, status |-> "pending",
     checkoutUrl |-> CheckoutUrl(id), content |-> body.content,
     createdAt |-> clock, updatedAt |-> clock]

\* IdempotencyKey.findOne({ where: { key } })
MutFindIdemKey(key) == idemKeys
MutFindUnexpired(key) == {k \in idemKeys : k.key = key /\ ~(k.expiresAt < clock)}
FindIdemKey(key) == {k \in idemKeys : k.key = key}

\* expiresAt.setHours(expiresAt.getHours() + 24)
TtlHours == 24

\* storeIdempotencyResponse: IdempotencyKey.create in a try whose catch only
\* logs.  dbOk is whether the store accepts the write at all; the unique
\* index on key refuses a second row for the key.
StoreIdempotencyResponse(key, hash, responseData, dbOk) ==
    IF dbOk /\ FindIdemKey(key) = {}
    THEN idemKeys \cup {[key |-> key, requestHash |-> hash,
                         responseData |-> JSONStringify(responseData),
                         expiresAt |-> clock + TtlHours]}
    ELSE idemKeys

(* ------------------------------ requests ------------------------------ *)
NewRequest(route, entry, key, body) ==
    [route |-> route, entry |-> entry, key |-> key, body |-> body,
     pc |-> IF entry = "http" THEN "check" ELSE "handler",
     requestHash |-> IF entry = "http" THEN NoHash ELSE RequestHash(body),
     resp |-> NoResp, ret |-> NoRet, log |-> <<>>,
     i |-> 0, results |-> <<>>, succeeded |-> 0, failed |-> 0,
     work |-> <<>>, lookups |-> 0, checkedAt |-> -1, keys |-> <<>>, waits |-> <<>>]

\* lookups counts the calls of IdempotencyKey.findOne made for the request,
\* checkedAt is the time of the call.
\* keys and waits record, by item index, the idempotency key passed to each
\* createPayment call of a batch and the milliseconds passed to each delay.
\* log records the calls of PaymentService.createPayment a request made and
\* how each settled ("ok" or the message of the error thrown), by item index
\* (0 for a single creation): what a spy on createPayment would see.
Logged(log, idx, outcome) ==
    [j \in DOMAIN log \cup {idx} |->
        IF j = idx
        THEN (IF idx \in DOMAIN log THEN log[idx] ELSE <<>>) \o <<outcome>>
        ELSE log[j]]

RECURSIVE SumLen(_, _)
SumLen(log, S) ==
    IF S = {} THEN 0
    ELSE LET j == CHOOSE x \in S : TRUE IN Len(log[j]) + SumLen(log, S \ {j})

\* Number of createPayment calls request r has made and seen settle.
Calls(r) == SumLen(reqs[r].log, DOMAIN reqs[r].log)

Respond(r, code, body) ==
    reqs' = [reqs EXCEPT ![r].pc = "done", ![r].resp = [code |-> code, body |-> body]]

(* ---------------- middleware: checkIdempotency, validateRequest ------- *)
\* checkIdempotency's answer when a row exists for the key (lines 94-108).
ConflictBody ==
    [error |-> "Idempotency key conflict",
     details |-> "The provided idempotency key is already used with different data"]
MutReplayInverted(existing, r) ==
    IF existing.requestHash # RequestHash(reqs[r].body)
    THEN [code |-> 200, body |-> JSONParse(existing.responseData)]
    ELSE [code |-> 409, body |-> ConflictBody]
MutReplayUnparsed(existing, r) ==
    IF existing.requestHash = RequestHash(reqs[r].body)
    THEN [code |-> 200, body |-> existing.responseData]
    ELSE [code |-> 409, body |-> ConflictBody]
MutReplayCurrent(existing, r) ==
    IF existing.requestHash = RequestHash(reqs[r].body)
    THEN LET stored == JSONParse(existing.responseData)
             payment == CHOOSE p \in payments : p.id = stored.paymentId
         IN  [code |-> 200, body |-> [stored EXCEPT !.status = payment.status]]
    ELSE [code |-> 409, body |-> ConflictBody]
MutReplayNoHashCheck(existing, r) ==
    [code |-> 200, body |-> JSONParse(existing.responseData)]
ReplayResponse(existing, r) ==
    IF existing.requestHash = RequestHash(reqs[r].body)
    THEN [code |-> 200, body |-> JSONParse(existing.responseData)]
    ELSE [code |-> 409, body |-> ConflictBody]

CheckIdempotency(r) ==
    /\ reqs[r].pc = "check"
    /\ UNCHANGED <<payments, histories, idemKeys, treqs, clock>>
    /\ IF reqs[r].key.u = 0
       THEN Respond(r, 400, [error |-> "Missing idempotency key"])
       ELSE IF ~UuidRegexTest(reqs[r].key)
       THEN Respond(r, 400, [error |-> "Invalid idempotency key format"])
       ELSE IF FindIdemKey(reqs[r].key) # {}
       THEN LET existing == CHOOSE k \in FindIdemKey(reqs[r].key) : TRUE
                answer == ReplayResponse(existing, r)
            IN  reqs' = [reqs EXCEPT ![r].pc = "done",
                                     ![r].lookups = @ + 1, ![r].checkedAt = clock,
                                     ![r].resp = [code |-> answer.code,
                                                  body |-> answer.body]]
       ELSE reqs' = [reqs EXCEPT ![r].pc = "validate",
                                 ![r].lookups = @ + 1, ![r].checkedAt = clock,
                                 ![r].requestHash = RequestHash(reqs[r].body)]

ValidateRequest(r) ==
    /\ reqs[r].pc = "validate"
    /\ UNCHANGED <<payments, histories, idemKeys, treqs, clock>>
    /\ LET ok == IF reqs[r].route = "batch"
                 THEN BatchPaymentSchemaOk(reqs[r].body)
                 ELSE CreatePaymentSchemaOk(reqs[r].body)
       IN  IF ok
           THEN reqs' = [reqs EXCEPT ![r].pc = "handler"]
           ELSE Respond(r, 400, [error |-> "Validation failed"])

(* ------------- PaymentController / PaymentService.createPayment ------- *)
\* createPayment up to the settlement of `await Payment.create(...)`.
\* dbOk: whether the store performs the insert (it may reject for a reason of
\* its own).  A rejection is rethrown and the controller answers 500.
CreatePayment(r, dbOk) ==
    /\ reqs[r].pc = "handler"
    /\ reqs[r].route = "create"
    /\ UNCHANGED <<histories, idemKeys, treqs, clock>>
    /\ LET paymentId == Uuid(r, 0, 1, 2)
           key == reqs[r].key
       IN  IF dbOk /\ PaymentCreateAllowed(key, paymentId)
           THEN /\ payments' = payments \cup {PaymentRow(paymentId, key, reqs[r].body)}
                /\ reqs' = [reqs EXCEPT ![r].pc = "store",
                                        ![r].log = Logged(@, 0, "ok"),
                                        ![r].ret = [kind |-> "value",
                                                    value |-> [paymentId |-> paymentId,
                                                               status |-> "pending",
                                                               checkoutUrl |-> CheckoutUrl(paymentId)]]]
           ELSE /\ payments' = payments
                /\ reqs' = [reqs EXCEPT ![r].pc = "done",
                                        ![r].log = Logged(@, 0, "Validation error"),
                                        ![r].ret = [kind |-> "throw"],
                                        ![r].resp = [code |-> 500,
                                                     body |-> [error |-> "Internal server error"]]]

\* createPayment from `await storeIdempotencyResponse(...)` to the
\* controller's res.status(201).json(result).
MutStoreAndRespond(r, dbOk) ==
    /\ reqs[r].pc = "store"
    /\ UNCHANGED <<payments, histories, treqs, clock>>
    /\ idemKeys' = StoreIdempotencyResponse(reqs[r].key, reqs[r].requestHash,
                                            reqs[r].ret.value, dbOk)
    /\ IF dbOk THEN Respond(r, 201, reqs[r].ret.value)
       ELSE Respond(r, 500, [error |-> "Internal server error"])
StoreAndRespond(r, dbOk) ==
    /\ reqs[r].pc = "store"
    /\ UNCHANGED <<payments, histories, treqs, clock>>
    /\ idemKeys' = StoreIdempotencyResponse(reqs[r].key, reqs[r].requestHash,
                                            reqs[r].ret.value, dbOk)
    /\ Respond(r, 201, reqs[r].ret.value)

(* --------- BatchPaymentController / BatchPaymentService -------------- *)
Min(a, b) == IF a < b THEN a ELSE b

\* JavaScript array as a function from the indices assigned; its length is
\* one more than the largest index.
ArrayLength(a) ==
    IF DOMAIN a = {} THEN 0
    ELSE (CHOOSE j \in DOMAIN a : \A k \in DOMAIN a : k <= j) + 1

NoError == [null |-> TRUE]
BatchItemHash == [literal |-> "batch-payment"]

\* `${uuidv4()}-${index}`
MutItemKey(r, index, attempt) ==
    [u |-> reqs[r].key.u, idx |-> index, wf |-> TRUE]
ItemKey(r, index, attempt) ==
    [u |-> Uuid(r, index, attempt, 1), idx |-> index, wf |-> TRUE]

\* processBatch lines 51-55: the size guard.
MutBatchTooLarge(body) == Len(body.payments) > 10 * MaxBatchSize
BatchTooLarge(body) == Len(body.payments) > MaxBatchSize

BatchTooLargeMessage == "Maximum 100 payments allowed per batch"

\* processBatch called on the request body; BatchPaymentController maps the
\* size error to 400.
ProcessBatch(r) ==
    /\ reqs[r].pc = "handler"
    /\ reqs[r].route = "batch"
    /\ UNCHANGED <<payments, histories, idemKeys, treqs, clock>>
    /\ IF BatchTooLarge(reqs[r].body)
       THEN reqs' = [reqs EXCEPT
                ![r].pc = "done",
                ![r].ret = [kind |-> "throw", message |-> BatchTooLargeMessage],
                ![r].resp = IF reqs[r].entry = "http"
                            THEN [code |-> 400,
                                  body |-> [error |-> "Validation failed",
                                            details |-> BatchTooLargeMessage]]
                            ELSE NoResp]
       ELSE reqs' = [reqs EXCEPT ![r].pc = "loop", ![r].i = 0, ![r].results = <<>>,
                                 ![r].succeeded = 0, ![r].failed = 0]

\* for (i ...; i += W): chunk = payments.slice(i, i + W); chunk.map starts
\* processPaymentWithRetry(payment, i + chunkIndex) for every item of the
\* chunk, each running up to its first await (attempt 1 of createPayment).
MutChunkAll(i, n) == n - i
MutChunkOverlap(i, n) == Min(i + MaxConcurrentWorkers + 1, n) - i
ChunkSize(i, n) == Min(i + MaxConcurrentWorkers, n) - i

StartChunk(r) ==
    /\ reqs[r].pc = "loop"
    /\ reqs[r].i < Len(reqs[r].body.payments)
    /\ UNCHANGED <<payments, histories, idemKeys, treqs, clock>>
    /\ LET i == reqs[r].i
           size == ChunkSize(i, Len(reqs[r].body.payments))
       IN  reqs' = [reqs EXCEPT
                ![r].pc = "chunk",
                ![r].work = [chunkIndex \in 0..(size - 1) |->
                                [index |-> i + chunkIndex, st |-> "calling",
                                 attempt |-> 1, lastError |-> NoError,
                                 settled |-> [status |-> "pending"]]]]

\* catch (error) { lastError = error as Error; ... }
MutKeepFirstError(lastError, error) == IF lastError = NoError THEN error ELSE lastError
CaughtError(lastError, error) == error

\* the message of the result after the last attempt failed (line 142)
ExhaustedMessage(lastError) ==
    IF "message" \in DOMAIN lastError /\ lastError.message # ""
    THEN lastError.message
    ELSE "Payment processing failed after all retry attempts"

\* attempt < this.options.maxRetryAttempts (line 130)
MutNeverRetry(attempt) == FALSE
MayRetry(attempt) == attempt < MaxRetryAttempts

\* this.options.retryDelayMs * attempt (line 132)
MutDelayMs(attempt) == RetryDelayMs
DelayMs(attempt) == RetryDelayMs * attempt

\* One attempt of processPaymentWithRetry settles: createPayment with a fresh
\* item key and the constant hash.  outcome is what the store does with
\* Payment.create ("ok", or the message of the error it rejects with);
\* storeOk whether it accepts the item's idempotency row (a failure there is
\* swallowed).  The item key fails the UUID syntax of checkIdempotency, so no
\* request reads the item's row: insert and row are one step.
ItemAttempt(r, c, outcome, storeOk) ==
    /\ reqs[r].pc = "chunk"
    /\ c \in DOMAIN reqs[r].work
    /\ reqs[r].work[c].st = "calling"
    /\ UNCHANGED <<histories, treqs, clock>>
    /\ LET w == reqs[r].work[c]
           key == ItemKey(r, w.index, w.attempt)
           paymentId == Uuid(r, w.index, w.attempt, 2)
           created == outcome = "ok" /\ PaymentCreateAllowed(key, paymentId)
           message == IF outcome = "ok" THEN "Validation error" ELSE outcome
           response == [paymentId |-> paymentId, status |-> "pending",
                        checkoutUrl |-> CheckoutUrl(paymentId)]
       IN  IF created
           THEN /\ payments' = payments \cup
                       {PaymentRow(paymentId, key, reqs[r].body.payments[w.index + 1])}
                /\ idemKeys' = StoreIdempotencyResponse(key, BatchItemHash, response, storeOk)
                /\ reqs' = [reqs EXCEPT
                       ![r].log = Logged(@, w.index, "ok"),
                       ![r].keys = Logged(@, w.index, key),
                       ![r].work[c].st = "settled",
                       ![r].work[c].settled =
                           [status |-> "fulfilled",
                            value |-> [index |-> w.index, paymentId |-> response.paymentId,
                                       status |-> response.status]]]
           ELSE /\ UNCHANGED <<payments, idemKeys>>
                /\ storeOk
                /\ LET lastError == CaughtError(w.lastError, [message |-> message])
                   IN  IF MayRetry(w.attempt)
                       THEN reqs' = [reqs EXCEPT
                               ![r].log = Logged(@, w.index, message),
                               ![r].keys = Logged(@, w.index, key),
                               ![r].waits = Logged(@, w.index, DelayMs(w.attempt)),
                               ![r].work[c].st = "delay",
                               ![r].work[c].lastError = lastError]
                       ELSE reqs' = [reqs EXCEPT
                               ![r].log = Logged(@, w.index, message),
                               ![r].keys = Logged(@, w.index, key),
                               ![r].work[c].st = "settled",
                               ![r].work[c].lastError = lastError,
                               ![r].work[c].settled =
                                   [status |-> "fulfilled",
                                    value |-> [index |-> w.index,
                                               error |-> [code |-> "max_retries_exceeded",
                                                          message |-> ExhaustedMessage(lastError)]]]]

\* await this.delay(retryDelayMs * attempt) elapses (the wait was recorded
\* when the delay was started, at the failure); the loop starts the
\* next attempt.
RetryItem(r, c) ==
    /\ reqs[r].pc = "chunk"
    /\ c \in DOMAIN reqs[r].work
    /\ reqs[r].work[c].st = "delay"
    /\ UNCHANGED <<payments, histories, idemKeys, treqs, clock>>
    /\ reqs' = [reqs EXCEPT ![r].work[c].st = "calling",
                            ![r].work[c].attempt = @ + 1]

\* const globalIndex = i + chunkIndex (line 71)
MutGlobalIndex(i, chunkIndex) == chunkIndex
GlobalIndex(i, chunkIndex) == i + chunkIndex

\* The result entry chunkResults.forEach writes for one settled promise.
ResultEntry(settled, globalIndex) ==
    IF settled.status = "fulfilled"
    THEN settled.value
    ELSE [index |-> globalIndex,
          error |-> [code |-> "processing_error", message |-> settled.reason]]

\* Whether forEach counts the settled promise as failed (lines 72-88).
MutCountsAsFailed(settled) == settled.status # "fulfilled"
MutCountsEveryFailed(settled) == TRUE
CountsAsFailed(settled) ==
    IF settled.status = "fulfilled" THEN "error" \in DOMAIN settled.value ELSE TRUE

\* Promise.allSettled(chunkPromises) resolves once every item of the chunk
\* has settled; chunkResults.forEach fills results by index and counts.
MutChunkSettled(work) ==
    \A c \in DOMAIN work :
        work[c].st = "settled" /\ "error" \notin DOMAIN work[c].settled.value
ChunkSettled(work) == \A c \in DOMAIN work : work[c].st = "settled"

SettleChunk(r) ==
    /\ reqs[r].pc = "chunk"
    /\ ChunkSettled(reqs[r].work)
    /\ UNCHANGED <<payments, histories, idemKeys, treqs, clock>>
    /\ LET i == reqs[r].i
           work == reqs[r].work
           written == {GlobalIndex(i, c) : c \in DOMAIN work}
           \* forEach runs in chunkIndex order: the last write to an index stays
           writer(g) == CHOOSE c \in DOMAIN work :
                            /\ GlobalIndex(i, c) = g
                            /\ \A d \in DOMAIN work : GlobalIndex(i, d) = g => d <= c
           nFailed == Cardinality({c \in DOMAIN work : CountsAsFailed(work[c].settled)})
       IN  reqs' = [reqs EXCEPT
                ![r].pc = "loop",
                ![r].i = i + MaxConcurrentWorkers,
                ![r].work = <<>>,
                ![r].results = [g \in DOMAIN reqs[r].results \cup written |->
                                   IF g \in written
                                   THEN ResultEntry(work[writer(g)].settled, g)
                                   ELSE reqs[r].results[g]],
                ![r].failed = @ + nFailed,
                ![r].succeeded = @ + (Cardinality(DOMAIN work) - nFailed)]

\* After the loop: the response is built, stored under the batch key and
\* returned; the controller answers 200.
FinishBatch(r, dbOk) ==
    /\ reqs[r].pc = "loop"
    /\ reqs[r].i >= Len(reqs[r].body.payments)
    /\ UNCHANGED <<payments, histories, treqs, clock>>
    /\ LET response == [results |-> reqs[r].results, failed |-> reqs[r].failed,
                        succeeded |-> reqs[r].succeeded]
       IN  /\ idemKeys' = StoreIdempotencyResponse(reqs[r].key, reqs[r].requestHash,
                                                   response, dbOk)
           /\ reqs' = [reqs EXCEPT
                  ![r].pc = "done",
                  ![r].ret = [kind |-> "value", value |-> response],
                  ![r].resp = IF reqs[r].entry = "http"
                              THEN [code |-> 200, body |-> response]
                              ELSE NoResp]

(* ---------------- PaymentService.updatePaymentStatus ------------------ *)
\* const validTransitions = { pending: ['paid'], paid: ['reversed'], reversed: [] };
ValidTransitions ==
    [pending |-> {"paid"}, paid |-> {"reversed"}, reversed |-> {}]

\* validTransitions[currentStatus]?.includes(newStatus) || false
MutIsValidStatusTransition(currentStatus, newStatus) ==
    currentStatus # newStatus /\ currentStatus # "reversed"
IsValidStatusTransition(currentStatus, newStatus) ==
    IF currentStatus \in DOMAIN ValidTransitions
    THEN newStatus \in ValidTransitions[currentStatus]
    ELSE FALSE

NoReason == "(undefined)"

NewTransition(paymentId, newStatus, reason) ==
    [paymentId |-> paymentId, newStatus |-> newStatus, reason |-> reason,
     pc |-> "find", found |-> FALSE, oldStatus |-> "", thrown |-> <<>>,
     resp |-> NoResp]

\* Payment.findByPk(request.paymentId)
MutFindByPk(id) == payments
FindByPk(id) == {p \in payments : p.id = id}

\* updatePaymentStatus from `await Payment.findByPk` to the call of
\* payment.update: the not-found and the transition checks run on the row
\* read.
FindAndValidate(t) ==
    /\ treqs[t].pc = "find"
    /\ UNCHANGED <<payments, histories, idemKeys, reqs, clock>>
    /\ IF FindByPk(treqs[t].paymentId) = {}
       THEN treqs' = [treqs EXCEPT ![t].pc = "done",
                                   ![t].thrown = <<"Payment not found">>]
       ELSE LET payment == CHOOSE p \in FindByPk(treqs[t].paymentId) : TRUE
            IN  IF ~IsValidStatusTransition(payment.status, treqs[t].newStatus)
                THEN treqs' = [treqs EXCEPT
                         ![t].pc = "done", ![t].found = TRUE,
                         ![t].oldStatus = payment.status,
                         ![t].thrown = <<"Invalid status transition from",
                                         payment.status, "to", treqs[t].newStatus>>]
                ELSE treqs' = [treqs EXCEPT
                         ![t].pc = "update", ![t].found = TRUE,
                         ![t].oldStatus = payment.status]

\* await payment.update({ status: request.newStatus })
MutUpdateStatus(t) ==
    /\ treqs[t].pc = "update"
    /\ UNCHANGED <<histories, idemKeys, reqs, clock>>
    /\ payments' = {[p EXCEPT !.status = treqs[t].newStatus, !.updatedAt = clock] :
                       p \in payments}
    /\ treqs' = [treqs EXCEPT ![t].pc = "history"]
UpdateStatus(t) ==
    /\ treqs[t].pc = "update"
    /\ UNCHANGED <<histories, idemKeys, reqs, clock>>
    /\ payments' = {IF p.id = treqs[t].paymentId
                    THEN [p EXCEPT !.status = treqs[t].newStatus, !.updatedAt = clock]
                    ELSE p : p \in payments}
    /\ treqs' = [treqs EXCEPT ![t].pc = "history"]

\* The row of PaymentHistory.create({ paymentId: payment.id, oldStatus,
\* newStatus: request.newStatus, reason: request.reason || '' }); oldStatus
\* is payment.status as read by findByPk (line 333).
MutHistoryRow(t) ==
    [paymentId |-> treqs[t].paymentId, oldStatus |-> treqs[t].newStatus,
     newStatus |-> treqs[t].newStatus, reason |-> treqs[t].reason]
HistoryRow(t) ==
    [paymentId |-> treqs[t].paymentId,
     oldStatus |-> treqs[t].oldStatus,
     newStatus |-> treqs[t].newStatus,
     reason |-> IF treqs[t].reason = NoReason THEN "" ELSE treqs[t].reason]

\* await PaymentHistory.create({...}), then the promise resolves.
RecordHistory(t) ==
    /\ treqs[t].pc = "history"
    /\ UNCHANGED <<payments, idemKeys, reqs, clock>>
    /\ histories' = Append(histories, HistoryRow(t))
    /\ treqs' = [treqs EXCEPT ![t].pc = "done"]

\* The store refuses a write: the awaited call rejects and, there being no
\* try/catch and no transaction in updatePaymentStatus, the error leaves the
\* function with whatever was written before it.
StoreError(table) == <<"SequelizeDatabaseError", table>>

\* payment.update rejects: nothing was written.
UpdateStatusFails(t) ==
    /\ treqs[t].pc = "update"
    /\ UNCHANGED <<payments, histories, idemKeys, reqs, clock>>
    /\ treqs' = [treqs EXCEPT ![t].pc = "done", ![t].thrown = StoreError("payments")]

\* PaymentHistory.create rejects: the status written by payment.update stays.
RecordHistoryFails(t) ==
    /\ treqs[t].pc = "history"
    /\ UNCHANGED <<payments, histories, idemKeys, reqs, clock>>
    /\ treqs' = [treqs EXCEPT ![t].pc = "done",
                             ![t].thrown = StoreError("payment_histories")]

(* --------------------------- specification ---------------------------- *)
InitSingle ==
    /\ clock = 0
    /\ payments = {}
    /\ histories = <<>>
    /\ idemKeys = {}
    /\ treqs = <<>>
    /\ reqs \in [1..NumReqs -> {NewRequest("create", "http", k, b) :
                                  k \in ClientKeys, b \in SingleBodies}]

NextSingle ==
    \E r \in 1..NumReqs :
        \/ CheckIdempotency(r)
        \/ ValidateRequest(r)
        \/ \E dbOk \in BOOLEAN : CreatePayment(r, dbOk)
        \/ \E dbOk \in BOOLEAN : StoreAndRespond(r, dbOk)

SpecSingle == InitSingle /\ [][NextSingle]_vars

\* One batch request, through the HTTP route (middleware first) or as a
\* direct call of BatchPaymentService.processBatch (entry "service"), with
\* every outcome of every creation attempt.
InitBatch ==
    /\ clock = 0
    /\ payments = {}
    /\ histories = <<>>
    /\ idemKeys = {}
    /\ treqs = <<>>
    /\ reqs \in [{1} -> {NewRequest("batch", e, ClientKey(1), b) :
                            e \in {"http", "service"}, b \in BatchBodies}]

NextBatch ==
    \E r \in {1} :
        \/ CheckIdempotency(r)
        \/ ValidateRequest(r)
        \/ ProcessBatch(r)
        \/ StartChunk(r)
        \/ \E c \in 0..(MaxConcurrentWorkers - 1), outcome \in {"ok"} \cup ErrMessages,
              storeOk \in BOOLEAN : ItemAttempt(r, c, outcome, storeOk)
        \/ \E c \in 0..(MaxConcurrentWorkers - 1) : RetryItem(r, c)
        \/ SettleChunk(r)
        \/ \E dbOk \in BOOLEAN : FinishBatch(r, dbOk)

SpecBatch == InitBatch /\ [][NextBatch]_vars

\* The same batch request when every step that can be taken is eventually
\* taken: the event loop runs every ready continuation, every creation call
\* settles and every delay timer fires.
SpecBatchLive == InitBatch /\ [][NextBatch]_vars /\ WF_vars(NextBatch)

\* Retransmission: several submissions of POST /payments/batch, possibly of
\* the same batch under the same key, in flight together.
InitRetx ==
    /\ clock = 0
    /\ payments = {}
    /\ histories = <<>>
    /\ idemKeys = {}
    /\ treqs = <<>>
    /\ reqs \in [1..NumBatchReqs -> {NewRequest("batch", "http", k, BatchBody(n)) :
                                       k \in ClientKeys, n \in 1..MaxRetxItems}]

NextRetx ==
    \E r \in 1..NumBatchReqs :
        \/ CheckIdempotency(r)
        \/ ValidateRequest(r)
        \/ ProcessBatch(r)
        \/ StartChunk(r)
        \/ \E c \in 0..(MaxConcurrentWorkers - 1), outcome \in {"ok", "Temporary failure"} :
              ItemAttempt(r, c, outcome, TRUE)
        \/ \E c \in 0..(MaxConcurrentWorkers - 1) : RetryItem(r, c)
        \/ SettleChunk(r)
        \/ \E dbOk \in BOOLEAN : FinishBatch(r, dbOk)

SpecRetx == InitRetx /\ [][NextRetx]_vars

\* Mutating requests with every kind of Idempotency-Key header: a UUID, no
\* header, text that is not a UUID, and the text of a key the batch service
\* generates for an item (a UUID followed by "-<index>").
HeaderKeys ==
    {ClientKey(1), ClientKey(2),
     [u |-> 0, idx |-> -1, wf |-> FALSE],
     [u |-> 1, idx |-> -1, wf |-> FALSE],
     ItemKey(1, 0, 1)}

InitGuard ==
    /\ clock = 0
    /\ payments = {}
    /\ histories = <<>>
    /\ idemKeys = {}
    /\ treqs = <<>>
    /\ reqs \in [1..NumGuardReqs ->
                   {NewRequest("create", "http", k, b) :
                       k \in HeaderKeys, b \in {PaymentBody("A", 1), PaymentBody("X", 1)}}
                   \cup {NewRequest("batch", "http", k, BatchBody(n)) :
                            k \in HeaderKeys, n \in {1, MaxBatchSize + 1}}]

NextGuard ==
    \E r \in 1..NumGuardReqs :
        \/ CheckIdempotency(r)
        \/ ValidateRequest(r)
        \/ \E dbOk \in BOOLEAN : CreatePayment(r, dbOk)
        \/ \E dbOk \in BOOLEAN : StoreAndRespond(r, dbOk)
        \/ ProcessBatch(r)
        \/ StartChunk(r)
        \/ \E c \in 0..(MaxConcurrentWorkers - 1), outcome \in {"ok", "Temporary failure"},
              storeOk \in BOOLEAN : ItemAttempt(r, c, outcome, storeOk)
        \/ \E c \in 0..(MaxConcurrentWorkers - 1) : RetryItem(r, c)
        \/ SettleChunk(r)
        \/ \E dbOk \in BOOLEAN : FinishBatch(r, dbOk)

SpecGuard == InitGuard /\ [][NextGuard]_vars

\* Status updates on one stored payment that is in a status of its lifecycle
\* with the history that led there; requests may name an unknown payment.
StoredPayment == PaymentRow(Uuid(1, 0, 1, 2), ClientKey(1), PaymentBody("A", 1))
UnknownPaymentId == Uuid(2, 0, 1, 2)

HistoryLeadingTo(status) ==
    LET row(from, to) == [paymentId |-> StoredPayment.id, oldStatus |-> from,
                          newStatus |-> to, reason |-> ""]
    IN  CASE status = "pending" -> <<>>
          [] status = "paid" -> <<row("pending", "paid")>>
          [] status = "reversed" -> <<row("pending", "paid"), row("paid", "reversed")>>

InitTrans ==
    /\ clock = 0
    /\ idemKeys = {}
    /\ reqs = <<>>
    /\ \E status \in Statuses :
          /\ payments = {[StoredPayment EXCEPT !.status = status]}
          /\ histories = HistoryLeadingTo(status)
    /\ treqs \in [1..NumTransReqs ->
                    {NewTransition(id, newStatus, reason) :
                        id \in {StoredPayment.id, UnknownPaymentId},
                        newStatus \in Statuses,
                        reason \in {NoReason, "Payment completed"}}]

NextTrans ==
    \E t \in 1..NumTransReqs :
        \/ FindAndValidate(t)
        \/ UpdateStatus(t)
        \/ RecordHistory(t)

SpecTrans == InitTrans /\ [][NextTrans]_vars

\* Status updates racing on one newly created payment (status pending, no
\* history yet): each request is a call of updatePaymentStatus whose awaits
\* interleave with those of the others.
InitRace ==
    /\ clock = 0
    /\ idemKeys = {}
    /\ reqs = <<>>
    /\ payments = {StoredPayment}
    /\ histories = <<>>
    /\ treqs \in [1..NumRaceReqs ->
                    {NewTransition(id, newStatus, reason) :
                        id \in {StoredPayment.id, UnknownPaymentId},
                        newStatus \in Statuses,
                        reason \in {NoReason, "Payment completed"}}]

NextRace ==
    \E t \in 1..NumRaceReqs :
        \/ FindAndValidate(t)
        \/ UpdateStatus(t)
        \/ RecordHistory(t)

SpecRace == InitRace /\ [][NextRace]_vars

\* The same calls against a store that may refuse a write.
NextAudit ==
    \E t \in 1..NumRaceReqs :
        \/ FindAndValidate(t)
        \/ UpdateStatus(t)
        \/ UpdateStatusFails(t)
        \/ RecordHistory(t)
        \/ RecordHistoryFails(t)

SpecAudit == InitRace /\ [][NextAudit]_vars

(* ------------------- time and cleanupOldRecords ----------------------- *)
\* Time passes.
Tick ==
    /\ clock < MaxClock
    /\ clock' = clock + TickHours
    /\ UNCHANGED <<payments, histories, idemKeys, reqs, treqs>>

\* IdempotencyKey.destroy({ where: { expiresAt: { [Op.lt]: new Date() } } })
Expired(row) == row.expiresAt < clock

CleanupOldRecords ==
    /\ idemKeys' = {row \in idemKeys : ~Expired(row)}
    /\ UNCHANGED <<payments, histories, reqs, treqs, clock>>

\* POST /payments requests under one key, sent at any time over two days,
\* with record writes that may fail and the cleanup job run at any time.
InitExpiry ==
    /\ clock = 0
    /\ payments = {}
    /\ histories = <<>>
    /\ idemKeys = {}
    /\ treqs = <<>>
    /\ reqs \in [1..NumExpiryReqs ->
                   {NewRequest("create", "http", ClientKey(1), b) :
                       b \in {PaymentBody("A", 1), PaymentBody("B", 1)}}]

NextExpiry ==
    \/ \E r \in 1..NumExpiryReqs :
          \/ CheckIdempotency(r)
          \/ ValidateRequest(r)
          \/ \E dbOk \in BOOLEAN : CreatePayment(r, dbOk)
          \/ \E dbOk \in BOOLEAN : StoreAndRespond(r, dbOk)
    \/ Tick
    \/ CleanupOldRecords

SpecExpiry == InitExpiry /\ [][NextExpiry]_vars

\* POST /payments requests under one key, and status updates of the payment
\* created for it, as time passes.
InitSnapshot ==
    /\ clock = 0
    /\ payments = {}
    /\ histories = <<>>
    /\ idemKeys = {}
    /\ reqs \in [1..NumSnapReqs ->
                   {NewRequest("create", "http", ClientKey(1), b) :
                       b \in {PaymentBody("A", 1), PaymentBody("B", 1)}}]
    /\ treqs \in [1..NumTransReqs ->
                    {NewTransition(Uuid(r, 0, 1, 2), newStatus, NoReason) :
                        r \in 1..NumSnapReqs, newStatus \in {"paid", "reversed"}}]

NextSnapshot ==
    \/ \E r \in 1..NumSnapReqs :
          \/ CheckIdempotency(r)
          \/ ValidateRequest(r)
          \/ \E dbOk \in BOOLEAN : CreatePayment(r, dbOk)
          \/ \E dbOk \in BOOLEAN : StoreAndRespond(r, dbOk)
    \/ \E t \in 1..NumTransReqs :
          \/ FindAndValidate(t)
          \/ UpdateStatus(t)
          \/ RecordHistory(t)
    \/ Tick

SpecSnapshot == InitSnapshot /\ [][NextSnapshot]_vars

(* --------------- WebhookController.simulateStatusUpdate --------------- *)
\* What updatePaymentStatus may reject with besides its own two errors: an
\* error of the store, any other Error, a value that is not an Error.
NotAnError == "(not an Error)"
OtherFailures ==
    {StoreError("payments"), <<"Database connection failed">>,
     <<NotAnError, "String error">>}

\* `await payment.update(...)` rejects with error.
UpdateStatusThrows(t, error) ==
    /\ treqs[t].pc = "update"
    /\ UNCHANGED <<payments, histories, idemKeys, reqs, clock>>
    /\ treqs' = [treqs EXCEPT ![t].pc = "done", ![t].thrown = error]

\* error instanceof Error; error.message.includes(phrase)
InstanceOfError(thrown) == thrown[1] # NotAnError
MessageIncludes(thrown, phrase) ==
    \/ phrase = "Payment not found" /\ thrown[1] = "Payment not found"
    \/ phrase = "Invalid status transition"
         /\ thrown[1] = "Invalid status transition from"

\* The response simulateStatusUpdate writes once updatePaymentStatus has
\* returned or thrown (lines 22-52).
MutWebhookResponse(t) ==
    IF treqs[t].thrown = <<>>
    THEN [code |-> 200, body |-> [message |-> "Payment status updated successfully"]]
    ELSE [code |-> 500, body |-> [error |-> "Internal server error",
                                  details |-> treqs[t].thrown]]
WebhookResponse(t) ==
    LET error == treqs[t].thrown
    IN  IF error = <<>>
        THEN [code |-> 200,
              body |-> [message |-> "Payment status updated successfully",
                        payment_id |-> treqs[t].paymentId,
                        new_status |-> treqs[t].newStatus,
                        reason |-> treqs[t].reason]]
        ELSE IF InstanceOfError(error) /\ MessageIncludes(error, "Payment not found")
        THEN [code |-> 404, body |-> [error |-> "Payment not found", details |-> error]]
        ELSE IF InstanceOfError(error) /\ MessageIncludes(error, "Invalid status transition")
        THEN [code |-> 422, body |-> [error |-> "Invalid status transition",
                                      details |-> error]]
        ELSE [code |-> 500, body |-> [error |-> "Internal server error",
                                      details |-> <<"Failed to update payment status">>]]

SimulateStatusUpdate(t) ==
    /\ treqs[t].pc = "done"
    /\ UNCHANGED <<payments, histories, idemKeys, reqs, clock>>
    /\ treqs' = [treqs EXCEPT ![t].pc = "responded", ![t].resp = WebhookResponse(t)]

\* POST /webhooks/simulate with bodies webhookSchema accepts (new_status paid
\* or reversed), on a payment in any status of its lifecycle or on an
\* unknown payment.
InitWebhook ==
    /\ clock = 0
    /\ idemKeys = {}
    /\ reqs = <<>>
    /\ \E status \in Statuses :
          /\ payments = {[StoredPayment EXCEPT !.status = status]}
          /\ histories = HistoryLeadingTo(status)
    /\ treqs \in [1..NumTransReqs ->
                    {NewTransition(id, newStatus, reason) :
                        id \in {StoredPayment.id, UnknownPaymentId},
                        newStatus \in {"paid", "reversed"},
                        reason \in {NoReason, "Payment completed"}}]

NextWebhook ==
    \E t \in 1..NumTransReqs :
        \/ FindAndValidate(t)
        \/ UpdateStatus(t)
        \/ \E error \in OtherFailures : UpdateStatusThrows(t, error)
        \/ RecordHistory(t)
        \/ RecordHistoryFails(t)
        \/ SimulateStatusUpdate(t)

SpecWebhook == InitWebhook /\ [][NextWebhook]_vars

(* ------------------- PaymentService.listPayments ---------------------- *)
\* A row of the payments table with the createdAt Sequelize sets at insert
\* (a Date: milliseconds), and a status the payment may have reached.
TimestampedRow(n, status, createdAt) ==
    LET row == PaymentRow(Uuid(n, 0, 1, 2), ClientKey(n), PaymentBody("A", 1))
    IN  [id |-> row.id, idempotencyKey |-> row.idempotencyKey,
         status |-> status, checkoutUrl |-> row.checkoutUrl,
         content |-> row.content, createdAt |-> createdAt, updatedAt |-> createdAt]

\* Date.prototype.toISOString and new Date(isoString): the ISO-8601 text of
\* a millisecond timestamp, and the timestamp of such a text.
ToISOString(date) == [iso |-> date]
NewDate(text) == text.iso

\* An optional property of a query or of a response is present.
Has(obj, field) == field \in DOMAIN obj

\* const limit = Math.min(query.limit || 20, 100): `||` takes the default
\* for an absent limit and for 0.
MutEffectiveLimit(query) ==
    IF ~Has(query, "limit") \/ query.limit = 0 THEN DefaultPageSize ELSE query.limit
EffectiveLimit(query) ==
    Min(IF ~Has(query, "limit") \/ query.limit = 0 THEN DefaultPageSize ELSE query.limit,
        MaxPageSize)

\* whereClause: status when query.status is given, createdAt < new
\* Date(query.cursor) when query.cursor is given.
MutWhereClause(query, row) ==
    /\ Has(query, "status") => row.status = query.status
    /\ Has(query, "cursor") => row.createdAt <= NewDate(query.cursor)
WhereClause(query, row) ==
    /\ Has(query, "status") => row.status = query.status
    /\ Has(query, "cursor") => row.createdAt < NewDate(query.cursor)

\* ORDER BY createdAt DESC over the rows S: every sequence the store may
\* return (rows with equal createdAt come in either order).  The rows are
\* split at a middle creation time, the newer ones coming first.
RECURSIVE AnyOrder(_)
AnyOrder(S) ==
    IF S = {} THEN {<<>>}
    ELSE UNION {{<<p>> \o rest : rest \in AnyOrder(S \ {p})} : p \in S}

RECURSIVE OrderedDesc(_)
OrderedDesc(S) ==
    LET times == {q.createdAt : q \in S}
    IN  IF Cardinality(times) <= 1 THEN AnyOrder(S)
        ELSE LET oldest == CHOOSE t \in times : \A u \in times : t <= u
                 latest == CHOOSE t \in times : \A u \in times : u <= t
                 middle == (oldest + latest) \div 2
             IN  {newer \o older :
                     newer \in OrderedDesc({q \in S : q.createdAt > middle}),
                     older \in OrderedDesc({q \in S : q.createdAt <= middle})}

\* LIMIT n
Limited(rows, n) == SubSeq(rows, 1, Min(n, Len(rows)))

\* Payment.findAll({ where, limit: limit + 1, order: [['createdAt','DESC']] })
MutFindAll(query) ==
    {Limited(rows, EffectiveLimit(query)) :
        rows \in OrderedDesc({row \in payments : WhereClause(query, row)})}
FindAll(query) ==
    {Limited(rows, EffectiveLimit(query) + 1) :
        rows \in OrderedDesc({row \in payments : WhereClause(query, row)})}

\* payments.slice(0, limit).map(...): the fields of an item that identify
\* the payment, with createdAt as ISO text.
ListItem(row) ==
    [id |-> row.id, status |-> row.status, createdAt |-> ToISOString(row.createdAt)]

\* listPayments after `await Payment.findAll(options)` returned found.
MutCursorOfExtraRow(query, found) ==
    LET limit == EffectiveLimit(query)
        items == [k \in 1..Min(limit, Len(found)) |-> ListItem(found[k])]
    IN  IF Len(found) > limit /\ Len(items) > 0
        THEN [items |-> items, nextCursor |-> ListItem(found[Len(found)]).createdAt]
        ELSE [items |-> items]
MutListResponse(query, found) ==
    LET limit == EffectiveLimit(query)
        items == [k \in 1..Min(limit, Len(found)) |-> ListItem(found[k])]
    IN  IF Len(items) > 0
        THEN [items |-> items, nextCursor |-> items[Len(items)].createdAt]
        ELSE [items |-> items]
ListResponse(query, found) ==
    LET limit == EffectiveLimit(query)
        hasNextPage == Len(found) > limit
        items == [k \in 1..Min(limit, Len(found)) |-> ListItem(found[k])]
    IN  IF hasNextPage /\ Len(items) > 0
        THEN [items |-> items, nextCursor |-> items[Len(items)].createdAt]
        ELSE [items |-> items]

\* A client that lists from no cursor and then follows nextCursor with the
\* same status and limit.  pages: the responses received.  Kept for the
\* statements about what the client must receive: first, the payments table
\* as it was at the first call, and sizes, the number of payments in the
\* table at each call.
NewListClient(query) ==
    [route |-> "list", query |-> query, pages |-> <<>>, pc |-> "page",
     first |-> {}, sizes |-> <<>>]

ListPayments(c) ==
    /\ reqs[c].pc = "page"
    /\ UNCHANGED <<payments, histories, idemKeys, treqs, clock>>
    /\ \E found \in FindAll(reqs[c].query) :
          LET response == ListResponse(reqs[c].query, found)
          IN  reqs' = [reqs EXCEPT
                  ![c].pages = Append(@, response),
                  ![c].first = IF Len(reqs[c].pages) = 0 THEN payments ELSE @,
                  ![c].sizes = Append(@, Cardinality(payments)),
                  ![c].pc = IF Has(response, "nextCursor") THEN "page" ELSE "done",
                  ![c].query = IF Has(response, "nextCursor")
                               THEN [cursor |-> response.nextCursor] @@ @
                               ELSE @]

\* A payment is created while client c pages: createPayment inserts a row
\* whose createdAt is the current time, the millisecond of the latest row
\* or a later one.
InsertPayment(c, later) ==
    /\ Len(reqs[c].pages) >= 1
    /\ Cardinality(payments) < Cardinality(reqs[c].first) + MaxInserts
    /\ UNCHANGED <<histories, idemKeys, reqs, treqs, clock>>
    /\ LET now == IF payments = {} THEN 1
                  ELSE (CHOOSE t \in {q.createdAt : q \in payments} :
                           \A q \in payments : q.createdAt <= t)
                       + (IF later THEN 1 ELSE 0)
       IN  payments' = payments \cup
               {TimestampedRow(Cardinality(payments) + 1, "pending", now)}

\* Stores: up to MaxRows rows with creation times in 1..MaxTime (row n + 1
\* is not older than row n) and statuses; and n rows created at n distinct
\* times (the documented example, and a store larger than a full page).
SmallStores ==
    UNION {{{TimestampedRow(k, status[k], time[k]) : k \in 1..n} :
                time \in {f \in [1..n -> 1..MaxTime] :
                             \A k \in 1..n : k < n => f[k] <= f[k + 1]},
                status \in [1..n -> {"pending", "paid"}]} :
           n \in 0..MaxRows}
ChainStore(n) == {TimestampedRow(k, "pending", k) : k \in 1..n}

ListQueries(limits) ==
    {[limit |-> l] : l \in limits} \cup {<<>>}
        \cup {[limit |-> l, status |-> st] : l \in limits, st \in {"pending", "reversed"}}
        \cup {[status |-> st] : st \in {"pending", "reversed"}}

InitList ==
    /\ clock = 0
    /\ histories = <<>>
    /\ idemKeys = {}
    /\ treqs = <<>>
    /\ \/ /\ payments \in SmallStores
          /\ reqs \in [{1} -> {NewListClient(q) : q \in ListQueries({0, 1, 2})}]
       \/ /\ payments = ChainStore(ExampleRows)
          /\ reqs \in [{1} -> {NewListClient([limit |-> 2])}]
       \/ /\ payments = ChainStore(MaxPageSize + 2)
          /\ reqs \in [{1} -> {NewListClient(<<>>), NewListClient([limit |-> MaxPageSize + 50])}]

NextList ==
    \E c \in {1} :
        \/ ListPayments(c)
        \/ \E later \in BOOLEAN : InsertPayment(c, later)

SpecList == InitList /\ [][NextList]_vars

\* The whole API at once: two creations under one key, a batch, a client
\* listing, and a status update of the payment the first creation makes.
InitCore ==
    /\ clock = 0
    /\ payments = {}
    /\ histories = <<>>
    /\ idemKeys = {}
    /\ \E query \in {<<>>, [limit |-> 1]} :
          reqs = <<NewRequest("create", "http", ClientKey(1), PaymentBody("A", 1)),
                   NewRequest("create", "http", ClientKey(1), PaymentBody("A", 1)),
                   NewRequest("batch", "http", ClientKey(2), BatchBody(NumCoreItems)),
                   NewListClient(query)>>
    /\ treqs \in [{1} -> {NewTransition(Uuid(1, 0, 1, 2), newStatus, NoReason) :
                             newStatus \in Statuses}]

NextCore ==
    \/ \E r \in 1..3 :
          \/ CheckIdempotency(r)
          \/ ValidateRequest(r)
          \/ CreatePayment(r, TRUE)
          \/ StoreAndRespond(r, TRUE)
          \/ ProcessBatch(r)
          \/ StartChunk(r)
          \/ \E c \in 0..(MaxConcurrentWorkers - 1), outcome \in {"ok", "Temporary failure"} :
                ItemAttempt(r, c, outcome, TRUE)
          \/ \E c \in 0..(MaxConcurrentWorkers - 1) : RetryItem(r, c)
          \/ SettleChunk(r)
          \/ FinishBatch(r, TRUE)
    \/ \E c \in {4} : ListPayments(c)
    \/ \E t \in {1} :
          \/ FindAndValidate(t)
          \/ UpdateStatus(t)
          \/ RecordHistory(t)

SpecCore == InitCore /\ [][NextCore]_vars

(* ------------------------- idempotent creation ------------------------ *)
\* r is a creation request that completed with 201 Created.
Created(r) == reqs[r].route = "create" /\ reqs[r].pc = "done" /\ reqs[r].resp.code = 201

\* The idempotency row of request r's own execution is in the store.
RecordPersisted(r) ==
    /\ reqs[r].ret.kind = "value"
    /\ \E row \in idemKeys :
          /\ row.key = reqs[r].key
          /\ row.requestHash = RequestHash(reqs[r].body)
          /\ row.responseData = JSONStringify(reqs[r].ret.value)

\* This step is request r's idempotency check (the start of its call).
ChecksNow(r) == reqs[r].pc = "check" /\ reqs'[r].pc # "check"

\* C1: a creation request that arrives after a request with the same key and
\* an identical payload was answered 201 and had its idempotency row stored is
\* answered with the first response's body, without a call of createPayment
\* and without a change of the payments table.
C1_ReplaySameResponse ==
    [][\A r1, r2 \in DOMAIN reqs :
          (/\ r1 # r2 /\ Created(r1) /\ RecordPersisted(r1)
           /\ reqs[r2].route = "create" /\ ChecksNow(r2)
           /\ reqs[r2].key = reqs[r1].key /\ reqs[r2].body = reqs[r1].body)
          => /\ reqs'[r2].pc = "done"
             /\ reqs'[r2].resp.code = 200
             /\ reqs'[r2].resp.body = reqs[r1].resp.body
             /\ reqs'[r2].log = <<>>
             /\ payments' = payments]_vars

C1_Witness ==
    \E r1, r2 \in DOMAIN reqs :
        /\ r1 # r2 /\ Created(r1) /\ RecordPersisted(r1)
        /\ reqs[r2].route = "create" /\ reqs[r2].pc = "done"
        /\ reqs[r2].key = reqs[r1].key /\ reqs[r2].body = reqs[r1].body
        /\ reqs[r2].resp = [code |-> 200, body |-> reqs[r1].resp.body]
        /\ reqs[r2].log = <<>>
        /\ Cardinality(payments) = 1

\* C2 as stated: a request that arrives after a successful request with the
\* same key and a different payload is answered 409, and neither the payments
\* nor the idempotency rows change.
C2_ConflictAfterAnySuccess ==
    [][\A r1, r2 \in DOMAIN reqs :
          (/\ r1 # r2 /\ Created(r1)
           /\ reqs[r2].route = "create" /\ ChecksNow(r2)
           /\ reqs[r2].key = reqs[r1].key
           /\ reqs[r2].body.content # reqs[r1].body.content)
          => /\ reqs'[r2].pc = "done"
             /\ reqs'[r2].resp.code = 409
             /\ reqs'[r2].log = <<>>
             /\ payments' = payments
             /\ idemKeys' = idemKeys]_vars

\* C2 (amended): a request that arrives after a successful request with the
\* same key and a different payload, whose idempotency row was stored, is
\* answered 409 (idempotency key conflict); createPayment is not called and
\* neither the payments nor the idempotency rows change.
C2_ConflictAfterStoredSuccess ==
    [][\A r1, r2 \in DOMAIN reqs :
          (/\ r1 # r2 /\ Created(r1) /\ RecordPersisted(r1)
           /\ reqs[r2].route = "create" /\ ChecksNow(r2)
           /\ reqs[r2].key = reqs[r1].key
           /\ reqs[r2].body.content # reqs[r1].body.content)
          => /\ reqs'[r2].pc = "done"
             /\ reqs'[r2].resp.code = 409
             /\ reqs'[r2].resp.body = ConflictBody
             /\ reqs'[r2].log = <<>>
             /\ payments' = payments
             /\ idemKeys' = idemKeys]_vars

C2_Witness ==
    \E r1, r2 \in DOMAIN reqs :
        /\ r1 # r2 /\ Created(r1) /\ RecordPersisted(r1)
        /\ reqs[r2].route = "create" /\ reqs[r2].pc = "done"
        /\ reqs[r2].key = reqs[r1].key
        /\ reqs[r2].body.content # reqs[r1].body.content
        /\ reqs[r2].resp.code = 409
        /\ reqs[r2].log = <<>>

\* C3: in every reachable state no two payments hold the same
\* idempotencyKey, however the creation requests interleave.
C3_UniqueIdempotencyKey ==
    \A p, q \in payments : p.idempotencyKey = q.idempotencyKey => p = q

\* Two requests with one key both passed the existence check before either
\* stored its row; one created the payment, the other was refused.
C3_Witness ==
    \E r1, r2 \in DOMAIN reqs :
        /\ r1 # r2 /\ reqs[r1].key = reqs[r2].key
        /\ reqs[r1].route = "create" /\ reqs[r2].route = "create"
        /\ reqs[r1].pc = "store"
        /\ reqs[r2].pc = "done" /\ Calls(r2) = 1 /\ reqs[r2].resp.code = 500
        /\ FindIdemKey(reqs[r1].key) = {}
        /\ \E p \in payments : p.idempotencyKey = reqs[r1].key

(* --------------------------- batch requests --------------------------- *)
BatchReqs == {r \in DOMAIN reqs : reqs[r].route = "batch"}
NumItems(r) == Len(reqs[r].body.payments)
Item(r, idx) == reqs[r].body.payments[idx + 1]

\* The payments in the store that request r created for its item idx: those
\* inserted under one of the item keys r generated for idx.
PaymentsOfItem(r, idx) ==
    {p \in payments : \E a \in 1..MaxRetryAttempts : p.idempotencyKey = ItemKey(r, idx, a)}

\* processBatch returned a response to request r.
Returned(r) == reqs[r].route = "batch" /\ reqs[r].pc = "done" /\ reqs[r].ret.kind = "value"

\* C4: a batch submitted more than once with the same key and an identical
\* payload, a retransmission arriving during the first run included, yields
\* at most one payment per input item.
C4_BatchAppliedAtMostOnce ==
    \A r1 \in BatchReqs : \A idx \in 0..(Min(NumItems(r1), MaxItems) - 1) :
        Cardinality(UNION {PaymentsOfItem(r2, idx) :
                              r2 \in {x \in BatchReqs : /\ reqs[x].key = reqs[r1].key
                                                        /\ reqs[x].body = reqs[r1].body}}) <= 1

\* C5: once a batch has run and its aggregated response is stored under the
\* batch key, a submission with the same key and an identical payload is
\* answered with that response (results, succeeded, failed) and processes no
\* item: no chunk, no createPayment call, no payment inserted.
C5_BatchReplay ==
    [][\A r1, r2 \in DOMAIN reqs :
          (/\ r1 # r2 /\ Returned(r1) /\ RecordPersisted(r1)
           /\ reqs[r2].route = "batch" /\ ChecksNow(r2)
           /\ reqs[r2].key = reqs[r1].key /\ reqs[r2].body = reqs[r1].body)
          => /\ reqs'[r2].pc = "done"
             /\ reqs'[r2].resp = [code |-> 200, body |-> reqs[r1].ret.value]
             /\ reqs'[r2].log = <<>> /\ reqs'[r2].work = <<>> /\ reqs'[r2].results = <<>>
             /\ payments' = payments]_vars

C5_Witness ==
    \E r1, r2 \in DOMAIN reqs :
        /\ r1 # r2 /\ Returned(r1) /\ RecordPersisted(r1)
        /\ reqs[r2].route = "batch" /\ reqs[r2].pc = "done"
        /\ reqs[r2].key = reqs[r1].key /\ reqs[r2].body = reqs[r1].body
        /\ reqs[r2].resp = [code |-> 200, body |-> reqs[r1].ret.value]
        /\ reqs[r2].log = <<>>
        /\ reqs[r1].ret.value.succeeded = 1 /\ reqs[r1].ret.value.failed = 1

\* C6: the response of an accepted batch has results.length = succeeded +
\* failed = items.length, an entry at every index 0..n-1, and the entry at i
\* has index i and describes item i: the payment it names was created for
\* item i from item i's data, or its error is item i's last failure.
C6_ResultsAlignWithItems ==
    \A r \in BatchReqs : Returned(r) =>
        LET n == NumItems(r)
            res == reqs[r].ret.value
        IN  /\ n <= MaxBatchSize
            /\ ArrayLength(res.results) = n
            /\ res.succeeded + res.failed = n
            /\ DOMAIN res.results = 0..(n - 1)
            /\ \A i \in 0..(n - 1) :
                  /\ res.results[i].index = i
                  /\ IF "paymentId" \in DOMAIN res.results[i]
                     THEN \E p \in PaymentsOfItem(r, i) :
                              /\ p.id = res.results[i].paymentId
                              /\ p.content = Item(r, i).content
                     ELSE res.results[i].error.message =
                              reqs[r].log[i][Len(reqs[r].log[i])]

\* A batch of two chunks in which the second item of the first chunk
\* failed and the others succeeded.
C6_Witness ==
    \E r \in BatchReqs :
        /\ Returned(r) /\ NumItems(r) = MaxItems /\ MaxItems > MaxConcurrentWorkers
        /\ "error" \in DOMAIN reqs[r].ret.value.results[1]
        /\ "paymentId" \in DOMAIN reqs[r].ret.value.results[0]
        /\ "paymentId" \in DOMAIN reqs[r].ret.value.results[MaxItems - 1]

\* r is a batch larger than the maximum.
Oversize(r) == reqs[r].route = "batch" /\ NumItems(r) > MaxBatchSize

\* C7: processBatch on a batch of more than 100 items throws the size error
\* at once: no createPayment call, no chunk started, no payment inserted and
\* no idempotency row written.
C7_OversizeRejectedFirst ==
    [][\A r \in DOMAIN reqs :
          (Oversize(r) /\ reqs'[r] # reqs[r])
          => /\ payments' = payments
             /\ idemKeys' = idemKeys
             /\ reqs'[r].log = <<>> /\ reqs'[r].work = <<>> /\ reqs'[r].results = <<>>
             /\ reqs[r].pc = "handler"
                  => /\ reqs'[r].pc = "done"
                     /\ reqs'[r].ret = [kind |-> "throw", message |-> BatchTooLargeMessage]
             /\ reqs[r].pc = "validate"
                  => /\ reqs'[r].pc = "done"
                     /\ reqs'[r].resp.code = 400]_vars

C7_Witness ==
    \E r \in DOMAIN reqs :
        /\ Oversize(r) /\ NumItems(r) = MaxBatchSize + 1
        /\ reqs[r].entry = "service" /\ reqs[r].pc = "done"
        /\ reqs[r].ret = [kind |-> "throw", message |-> BatchTooLargeMessage]
        /\ payments = {} /\ idemKeys = {}

\* Every createPayment call request r made for its items failed.
AllAttemptsFailed(r) ==
    \A i \in DOMAIN reqs[r].log : \A k \in DOMAIN reqs[r].log[i] : reqs[r].log[i][k] # "ok"

\* C8: a batch whose every creation call failed on every attempt returns
\* succeeded = 0 and failed = items.length, and every entry has no paymentId
\* and an error whose message is non-empty: the message of the item's last
\* failure.
C8_AllFailedBatch ==
    \A r \in BatchReqs : (Returned(r) /\ AllAttemptsFailed(r)) =>
        LET res == reqs[r].ret.value
        IN  /\ res.succeeded = 0
            /\ res.failed = NumItems(r)
            /\ \A i \in 0..(NumItems(r) - 1) :
                  /\ i \in DOMAIN res.results
                  /\ "paymentId" \notin DOMAIN res.results[i]
                  /\ "error" \in DOMAIN res.results[i]
                  /\ res.results[i].error.message # ""
                  /\ res.results[i].error.message = reqs[r].log[i][Len(reqs[r].log[i])]

\* Every item failed twice or more, the last time with another message than
\* the first.
C8_Witness ==
    \E r \in BatchReqs :
        /\ Returned(r) /\ AllAttemptsFailed(r) /\ NumItems(r) = MaxItems
        /\ reqs[r].ret.value.failed = MaxItems
        /\ \A i \in 0..(MaxItems - 1) :
              /\ reqs[r].log[i][1] = "Persistent failure"
              /\ reqs[r].log[i][Len(reqs[r].log[i])] = "Temporary failure"
              /\ reqs[r].ret.value.results[i].error.message = "Temporary failure"

\* The outcome of item i of request r as its own attempts decide it.
OwnOutcome(r, i) ==
    LET tries == reqs[r].log[i]
    IN  IF tries[Len(tries)] = "ok"
        THEN [index |-> i, paymentId |-> Uuid(r, i, Len(tries), 2), status |-> "pending"]
        ELSE [index |-> i, error |-> [code |-> "max_retries_exceeded",
                                      message |-> tries[Len(tries)]]]

\* C9: processBatch on a batch of at most 100 items returns a response and
\* does not throw, whichever items fail; each item's entry is decided by that
\* item's own attempts alone, and succeeded / failed count exactly the items
\* whose own attempts ended in success / failure.
C9_ItemFailuresIsolated ==
    \A r \in BatchReqs :
        (reqs[r].pc = "done" /\ reqs[r].ret.kind # "none" /\ NumItems(r) <= MaxBatchSize) =>
            /\ reqs[r].ret.kind = "value"
            /\ reqs[r].entry = "http" => reqs[r].resp.code = 200
            /\ \A i \in 0..(NumItems(r) - 1) :
                  reqs[r].ret.value.results[i] = OwnOutcome(r, i)
            /\ reqs[r].ret.value.failed =
                  Cardinality({i \in 0..(NumItems(r) - 1) :
                                  "error" \in DOMAIN OwnOutcome(r, i)})
            /\ reqs[r].ret.value.succeeded =
                  Cardinality({i \in 0..(NumItems(r) - 1) :
                                  "paymentId" \in DOMAIN OwnOutcome(r, i)})

\* In one chunk the first item failed for good and the second succeeded on
\* its first attempt.
C9_Witness ==
    \E r \in BatchReqs :
        /\ Returned(r) /\ NumItems(r) >= 2
        /\ "error" \in DOMAIN reqs[r].ret.value.results[0]
        /\ Len(reqs[r].log[1]) = 1
        /\ "paymentId" \in DOMAIN reqs[r].ret.value.results[1]
        /\ reqs[r].ret.value.succeeded >= 1 /\ reqs[r].ret.value.failed >= 1


(* ------------------------- status transitions ------------------------- *)
AllowedPairs == {<<"pending", "paid">>, <<"paid", "reversed">>}

\* C10: a status update on an existing payment succeeds if and only if the
\* pair (status read, status requested) is pending -> paid or paid ->
\* reversed; every other pair is rejected with the invalid-transition error
\* naming both statuses, and is not applied.
C10_OnlyAllowedPairsSucceed ==
    \A t \in DOMAIN treqs :
        treqs[t].found =>
            LET pair == <<treqs[t].oldStatus, treqs[t].newStatus>>
            IN  IF pair \in AllowedPairs
                THEN /\ treqs[t].thrown = <<>>
                     /\ treqs[t].pc = "done" =>
                          \E k \in DOMAIN histories :
                              /\ histories[k].paymentId = treqs[t].paymentId
                              /\ histories[k].oldStatus = pair[1]
                              /\ histories[k].newStatus = pair[2]
                ELSE /\ treqs[t].pc = "done"
                     /\ treqs[t].thrown =
                          <<"Invalid status transition from", pair[1], "to", pair[2]>>

\* paid -> reversed was applied, then reversed -> paid was refused.
C10_Witness ==
    \E t1, t2 \in DOMAIN treqs :
        /\ treqs[t1].pc = "done" /\ treqs[t1].found /\ treqs[t1].thrown = <<>>
        /\ treqs[t1].oldStatus = "paid" /\ treqs[t1].newStatus = "reversed"
        /\ treqs[t2].pc = "done" /\ treqs[t2].found
        /\ treqs[t2].oldStatus = "reversed" /\ treqs[t2].newStatus = "paid"
        /\ treqs[t2].thrown = <<"Invalid status transition from", "reversed", "to", "paid">>
        /\ \A p \in payments : p.status = "reversed"

(* ------------------------- the audit trail ---------------------------- *)
\* This step is the return of call t: without an error, or with one.
Succeeds(t) ==
    treqs[t].pc # "done" /\ treqs'[t].pc = "done" /\ treqs'[t].thrown = <<>>
Rejects(t) ==
    treqs[t].pc # "done" /\ treqs'[t].pc = "done" /\ treqs'[t].thrown # <<>>

\* The stored status of payment id (the payment exists).
StoredStatus(id) == (CHOOSE p \in payments : p.id = id).status

SuppliedReason(t) == IF treqs[t].reason = NoReason THEN "" ELSE treqs[t].reason

\* C11: the status a call of updatePaymentStatus takes as old status is the
\* stored status it read; the step in which the call returns successfully
\* appends exactly one PaymentHistory row, for its payment, with that old
\* status, the requested status and the supplied reason ('' when none was
\* supplied); every other step of a call, a rejection included, leaves the
\* history as it was.
C11_OneHistoryPerTransition ==
    [][\A t \in DOMAIN treqs :
          /\ (treqs[t].pc = "find" /\ treqs'[t].pc = "update")
                => treqs'[t].oldStatus = StoredStatus(treqs[t].paymentId)
          /\ Succeeds(t)
                => histories' = Append(histories,
                                       [paymentId |-> treqs[t].paymentId,
                                        oldStatus |-> treqs[t].oldStatus,
                                        newStatus |-> treqs[t].newStatus,
                                        reason |-> SuppliedReason(t)])
          /\ (treqs'[t] # treqs[t] /\ ~Succeeds(t))
                => histories' = histories]_vars

\* pending -> paid with a reason succeeded and left its one row; another
\* call was rejected.
C11_Witness ==
    \E t1, t2 \in DOMAIN treqs :
        /\ treqs[t1].pc = "done" /\ treqs[t1].thrown = <<>>
        /\ treqs[t1].reason = "Payment completed"
        /\ treqs[t2].pc = "done" /\ treqs[t2].thrown # <<>>
        /\ histories = <<[paymentId |-> StoredPayment.id, oldStatus |-> "pending",
                          newStatus |-> "paid", reason |-> "Payment completed"]>>

\* The update of call t was written to the payments table.
UpdateApplied(t) ==
    \/ treqs[t].pc = "history"
    \/ /\ treqs[t].pc = "done" /\ treqs[t].found
       /\ treqs[t].thrown \in {<<>>, StoreError("payment_histories")}

\* C12: whenever no status update is in progress, the number of PaymentHistory
\* rows of the payment equals the number of status updates applied to it,
\* also when a PaymentHistory write failed after the Payment update.
C12_HistoryMatchesStatusChanges ==
    (\A t \in DOMAIN treqs : treqs[t].pc = "done")
        => Len(histories) = Cardinality({t \in DOMAIN treqs : UpdateApplied(t)})

\* C13: under every interleaving of status updates on a payment its stored
\* status only moves forward: it never leaves reversed, and never goes from
\* paid back to pending.
C13_LifecycleOnlyForward ==
    [][\A p \in payments : \A q \in payments' :
          p.id = q.id =>
              <<p.status, q.status>> \notin {<<"reversed", "paid">>,
                                             <<"reversed", "pending">>,
                                             <<"paid", "pending">>}]_vars

\* C14: a call of updatePaymentStatus is rejected only in its first step,
\* the read: with 'Payment not found' when no payment has the id, with the
\* invalid-transition error when the pair is not allowed; that step leaves
\* every payment and the whole PaymentHistory unchanged.
C14_RejectionChangesNothing ==
    [][\A t \in DOMAIN treqs :
          /\ Rejects(t) => /\ treqs[t].pc = "find"
                           /\ payments' = payments
                           /\ histories' = histories
          /\ (treqs[t].pc = "find" /\ treqs'[t].pc # "find") =>
                IF \A p \in payments : p.id # treqs[t].paymentId
                THEN Rejects(t) /\ treqs'[t].thrown = <<"Payment not found">>
                ELSE LET pair == <<StoredStatus(treqs[t].paymentId), treqs[t].newStatus>>
                     IN  pair \notin AllowedPairs =>
                            /\ Rejects(t)
                            /\ treqs'[t].thrown = <<"Invalid status transition from",
                                                    pair[1], "to", pair[2]>>]_vars

\* One call named an unknown payment, another asked for pending -> reversed;
\* both were rejected and the payment is pending with no history.
C14_Witness ==
    \E t1, t2 \in DOMAIN treqs :
        /\ treqs[t1].pc = "done" /\ treqs[t1].thrown = <<"Payment not found">>
        /\ treqs[t2].pc = "done"
        /\ treqs[t2].thrown = <<"Invalid status transition from", "pending",
                                "to", "reversed">>
        /\ \A p \in payments : p.status = "pending"
        /\ histories = <<>>

(* ----------------------------- listing -------------------------------- *)
\* The items client c has received, in the order received.
RECURSIVE ItemsOf(_, _)
ItemsOf(pages, k) ==
    IF k = 0 THEN <<>> ELSE ItemsOf(pages, k - 1) \o pages[k].items
Received(c) == ItemsOf(reqs[c].pages, Len(reqs[c].pages))

DistinctTimes(S) == \A p, q \in S : p # q => p.createdAt # q.createdAt

\* The rows of S with the status client c asked for.
WithStatus(S, c) ==
    {row \in S : Has(reqs[c].query, "status") => row.status = reqs[c].query.status}

\* This step is a call of listPayments by client c; its response.
ListStep(c) == Len(reqs'[c].pages) = Len(reqs[c].pages) + 1
Answer(c) == reqs'[c].pages[Len(reqs'[c].pages)]

\* The payments the query of client c selects at this call.
Selected(c) ==
    {row \in payments :
        /\ Has(reqs[c].query, "status") => row.status = reqs[c].query.status
        /\ Has(reqs[c].query, "cursor") => row.createdAt < reqs[c].query.cursor.iso}

\* The page size of a query: 20 when no limit or the limit 0 is given,
\* otherwise the limit given, at most 100.
PageSize(query) ==
    IF Has(query, "limit") /\ query.limit >= 1
    THEN (IF query.limit <= MaxPageSize THEN query.limit ELSE MaxPageSize)
    ELSE DefaultPageSize

\* C15: when the payments have pairwise distinct creation times and none is
\* created meanwhile, a client that lists from no cursor and follows
\* nextCursor until none is returned has received every payment (of the
\* status asked for) exactly once, in strictly descending creation order.
C15_PagesCoverAllOnce ==
    \A c \in DOMAIN reqs :
        (reqs[c].pc = "done" /\ payments = reqs[c].first /\ DistinctTimes(payments)) =>
            LET got == Received(c)
            IN  /\ Len(got) = Cardinality(WithStatus(payments, c))
                /\ {got[k].id : k \in DOMAIN got} = {row.id : row \in WithStatus(payments, c)}
                /\ \A k \in DOMAIN got :
                       k < Len(got) => got[k].createdAt.iso > got[k + 1].createdAt.iso

\* Payments A..E, limit 2: [E, D] with nextCursor D.createdAt, then [C, B],
\* then [A].
C15_Witness ==
    LET item(k) == ListItem(TimestampedRow(k, "pending", k))
    IN  /\ payments = ChainStore(ExampleRows)
        /\ reqs[1].pc = "done"
        /\ reqs[1].pages = <<[items |-> <<item(5), item(4)>>, nextCursor |-> item(4).createdAt],
                             [items |-> <<item(3), item(2)>>, nextCursor |-> item(2).createdAt],
                             [items |-> <<item(1)>>]>>

\* C16: a call of listPayments returns at most the page size of items, and
\* returns nextCursor exactly when the query selects more payments than it
\* returned; nextCursor is then the creation time of the last item returned.
C16_NextCursorIffMore ==
    [][\A c \in DOMAIN reqs :
          ListStep(c) =>
              LET items == Answer(c).items
              IN  /\ Len(items) <= PageSize(reqs[c].query)
                  /\ Has(Answer(c), "nextCursor") <=> Cardinality(Selected(c)) > Len(items)
                  /\ Has(Answer(c), "nextCursor") =>
                        Answer(c).nextCursor = items[Len(items)].createdAt]_vars

\* A full page came with a cursor, and the last page, with fewer payments
\* left than the limit, came without one.
C16_Witness ==
    /\ reqs[1].pc = "done"
    /\ Len(reqs[1].pages) = 2
    /\ Has(reqs[1].query, "limit") /\ reqs[1].query.limit = 2
    /\ Len(reqs[1].pages[1].items) = 2 /\ Has(reqs[1].pages[1], "nextCursor")
    /\ Len(reqs[1].pages[2].items) = 1 /\ ~Has(reqs[1].pages[2], "nextCursor")

\* C17: every item a call of listPayments with a cursor returns is a payment
\* created strictly before the cursor, and every item of a call with a status
\* filter has that status.
C17_CursorExclusive ==
    [][\A c \in DOMAIN reqs :
          ListStep(c) =>
              \A k \in DOMAIN Answer(c).items :
                  LET item == Answer(c).items[k]
                  IN  /\ \E row \in payments : ListItem(row) = item
                      /\ Has(reqs[c].query, "cursor")
                            => item.createdAt.iso < reqs[c].query.cursor.iso
                      /\ Has(reqs[c].query, "status")
                            => item.status = reqs[c].query.status]_vars

\* A second page was listed with a status filter while two payments of that
\* status have the creation time of the cursor: neither is in that page.
C17_Witness ==
    /\ Len(reqs[1].pages) = 2
    /\ Has(reqs[1].query, "status")
    /\ Len(reqs[1].pages[2].items) >= 1
    /\ \E p, q \in WithStatus(payments, 1) :
          /\ p # q
          /\ p.createdAt = reqs[1].pages[1].nextCursor.iso
          /\ q.createdAt = reqs[1].pages[1].nextCursor.iso
          /\ \A k \in DOMAIN reqs[1].pages[2].items :
                reqs[1].pages[2].items[k].id \notin {p.id, q.id}

C19_StableUnderInserts ==
    \A c \in DOMAIN reqs :
        (Len(reqs[c].pages) >= 1 /\ DistinctTimes(payments)) =>
            LET got == Received(c)
            IN  /\ \A j, k \in DOMAIN got : j # k => got[j].id # got[k].id
                /\ reqs[c].pc = "done" =>
                      \A row \in WithStatus(reqs[c].first, c) :
                          \E k \in DOMAIN got : got[k].id = row.id

\* Payments were created between two calls of a client that then went on to
\* the end.
C19_Witness ==
    /\ reqs[1].pc = "done"
    /\ DistinctTimes(payments)
    /\ \E k \in DOMAIN reqs[1].sizes :
          /\ k < Len(reqs[1].sizes)
          /\ reqs[1].sizes[k] < reqs[1].sizes[k + 1]
          /\ Len(reqs[1].pages[k + 1].items) >= 1

(* ------------------------ the key of a request ------------------------ *)
\* The Idempotency-Key header is absent or is not a UUID.
BadKey(key) == key.u = 0 \/ ~key.wf \/ key.idx # -1

\* C20: a request to POST /payments or POST /payments/batch whose
\* Idempotency-Key header is absent or not a UUID makes no lookup of an
\* idempotency row and never reaches validation or its handler; it is
\* answered 400, 'Missing idempotency key' or 'Invalid idempotency key
\* format'.
C20_BadKeyRejectedBeforeLookup ==
    \A r \in DOMAIN reqs :
        BadKey(reqs[r].key) =>
            /\ reqs[r].lookups = 0
            /\ Calls(r) = 0
            /\ reqs[r].ret = NoRet
            /\ reqs[r].pc \in {"check", "done"}
            /\ reqs[r].pc = "done" =>
                  /\ reqs[r].resp.code = 400
                  /\ reqs[r].resp.body =
                        [error |-> IF reqs[r].key.u = 0
                                   THEN "Missing idempotency key"
                                   ELSE "Invalid idempotency key format"]

\* A request sent the key the batch service stored an item response under:
\* the row exists, and the request was rejected without looking it up.
C20_Witness ==
    \E r \in DOMAIN reqs :
        /\ reqs[r].key.idx # -1
        /\ FindIdemKey(reqs[r].key) # {}
        /\ reqs[r].pc = "done"
        /\ reqs[r].resp.code = 400
        /\ reqs[r].lookups = 0

(* ------------------- the hash and the stored record ------------------- *)
\* C21: a creation request that arrives after a request with the same key
\* and a payload of the same fields and values, in whatever field order, was
\* answered 201 and had its idempotency row stored, is answered 200 with the
\* first response's body (replayed), not 409.
C21_ReplayWhateverFieldOrder ==
    [][\A r1, r2 \in DOMAIN reqs :
          (/\ r1 # r2 /\ Created(r1) /\ RecordPersisted(r1)
           /\ reqs[r2].route = "create" /\ ChecksNow(r2)
           /\ reqs[r2].key = reqs[r1].key
           /\ reqs[r2].body.content = reqs[r1].body.content)
          => /\ reqs'[r2].pc = "done"
             /\ reqs'[r2].resp.code = 200
             /\ reqs'[r2].resp.body = reqs[r1].resp.body]_vars

\* The operation of request r returned its result.
Succeeded(r) == reqs[r].pc = "done" /\ reqs[r].ret.kind = "value"

\* No idempotency row is stored under the key of request r.
NoRecord(r) == FindIdemKey(reqs[r].key) = {}

\* C22: a request whose operation (single creation or batch) returned its
\* result is answered with that result, 201 for a creation and 200 for a
\* batch, whether or not the idempotency row could be written, and every
\* payment the result names is in the payments table.
C22_StoreFailureNeverFailsRequest ==
    \A r \in DOMAIN reqs :
        Succeeded(r) =>
            /\ reqs[r].resp = [code |-> IF reqs[r].route = "create" THEN 201 ELSE 200,
                               body |-> reqs[r].ret.value]
            /\ reqs[r].route = "create" =>
                  \E p \in payments : p.id = reqs[r].ret.value.paymentId
            /\ reqs[r].route = "batch" =>
                  \A g \in DOMAIN reqs[r].ret.value.results :
                      "paymentId" \in DOMAIN reqs[r].ret.value.results[g] =>
                          \E p \in payments :
                              p.id = reqs[r].ret.value.results[g].paymentId

\* A creation and a batch both succeeded with their record writes failing:
\* 201 and 200 were answered, the payments exist, no row is stored.
C22_Witness ==
    \E r1, r2 \in DOMAIN reqs :
        /\ reqs[r1].route = "create" /\ Succeeded(r1) /\ NoRecord(r1)
        /\ reqs[r1].resp.code = 201
        /\ reqs[r2].route = "batch" /\ Succeeded(r2) /\ NoRecord(r2)
        /\ reqs[r2].resp.code = 200
        /\ reqs[r2].ret.value.succeeded = 1
        /\ Cardinality(payments) = 2

(* -------------------- the batch worker pool --------------------------- *)
\* The item operations of batch r in flight: started and not settled, an
\* item waiting in its retry delay included.
InFlight(r) == {c \in DOMAIN reqs[r].work : reqs[r].work[c].st # "settled"}

\* C23: at every moment of a batch at most MaxConcurrentWorkers item
\* operations are in flight.
C23_AtMostWInFlight ==
    \A r \in BatchReqs : Cardinality(InFlight(r)) <= MaxConcurrentWorkers

\* A full pool: one item is calling createPayment, another waits in its
\* retry delay, in a batch with more items than workers.
C23_Witness ==
    \E r \in BatchReqs :
        /\ NumItems(r) > MaxConcurrentWorkers
        /\ Cardinality(InFlight(r)) = MaxConcurrentWorkers
        /\ \E c, d \in DOMAIN reqs[r].work :
              reqs[r].work[c].st = "calling" /\ reqs[r].work[d].st = "delay"

\* Item g of batch r has settled, as the calls of createPayment show: its
\* last call succeeded, or MaxRetryAttempts calls were made.
ItemSettled(r, g) ==
    /\ g \in DOMAIN reqs[r].log
    /\ \/ reqs[r].log[g][Len(reqs[r].log[g])] = "ok"
       \/ Len(reqs[r].log[g]) = MaxRetryAttempts

\* This step starts a creation attempt of item g of batch r.
AttemptStarts(r, g) ==
    \E c \in DOMAIN reqs'[r].work :
        /\ reqs'[r].work[c].index = g
        /\ reqs'[r].work[c].st = "calling"
        /\ ~(/\ c \in DOMAIN reqs[r].work
             /\ reqs[r].work[c].index = g
             /\ reqs[r].work[c].st = "calling")

\* C24: the items being processed together are consecutive items of one
\* chunk (indices kW .. kW + W - 1), and a creation attempt of an item
\* starts only when every item of every earlier chunk has settled.
C24_ChunksInOrder ==
    [][\A r \in BatchReqs :
          /\ \A c \in DOMAIN reqs'[r].work :
                /\ reqs'[r].work[c].index = reqs'[r].i + c
                /\ c < MaxConcurrentWorkers
                /\ reqs'[r].i % MaxConcurrentWorkers = 0
          /\ \A g \in 0..(NumItems(r) - 1) :
                AttemptStarts(r, g) =>
                    \A h \in 0..(NumItems(r) - 1) :
                        (h \div MaxConcurrentWorkers < g \div MaxConcurrentWorkers)
                            => ItemSettled(r, h)]_vars

\* The second chunk is being attempted after the first settled with one item
\* succeeded and one failed on every attempt.
C24_Witness ==
    \E r \in BatchReqs :
        /\ reqs[r].pc = "chunk" /\ reqs[r].i = MaxConcurrentWorkers
        /\ \E c \in DOMAIN reqs[r].work : reqs[r].work[c].st = "calling"
        /\ \E g, h \in 0..(MaxConcurrentWorkers - 1) :
              /\ ItemSettled(r, g) /\ reqs[r].log[g][Len(reqs[r].log[g])] = "ok"
              /\ ItemSettled(r, h) /\ reqs[r].log[h][Len(reqs[r].log[h])] # "ok"

\* C25: for every item of a batch createPayment is called at most
\* MaxRetryAttempts times and never after a call that succeeded; when the
\* batch has returned, every item was attempted at least once, an item whose
\* last call succeeded has an entry with a paymentId, and an item has an
\* error entry only after exactly MaxRetryAttempts failed calls.
C25_RetryBounded ==
    \A r \in BatchReqs :
        /\ \A g \in DOMAIN reqs[r].log :
              LET calls == reqs[r].log[g]
              IN  /\ Len(calls) >= 1 /\ Len(calls) <= MaxRetryAttempts
                  /\ \A k \in DOMAIN calls : calls[k] = "ok" => k = Len(calls)
        /\ Returned(r) =>
              \A g \in 0..(NumItems(r) - 1) :
                  LET entry == reqs[r].ret.value.results[g]
                      calls == reqs[r].log[g]
                  IN  /\ g \in DOMAIN reqs[r].log
                      /\ calls[Len(calls)] = "ok" <=> "paymentId" \in DOMAIN entry
                      /\ "error" \in DOMAIN entry <=> "paymentId" \notin DOMAIN entry
                      /\ "error" \in DOMAIN entry =>
                            /\ Len(calls) = MaxRetryAttempts
                            /\ \A k \in DOMAIN calls : calls[k] # "ok"

\* One item succeeded at the last allowed attempt, another failed on all.
C25_Witness ==
    \E r \in BatchReqs :
        /\ Returned(r)
        /\ \E g, h \in DOMAIN reqs[r].log :
              /\ Len(reqs[r].log[g]) = MaxRetryAttempts
              /\ reqs[r].log[g][MaxRetryAttempts] = "ok"
              /\ "paymentId" \in DOMAIN reqs[r].ret.value.results[g]
              /\ Len(reqs[r].log[h]) = MaxRetryAttempts
              /\ reqs[r].log[h][MaxRetryAttempts] # "ok"
              /\ "error" \in DOMAIN reqs[r].ret.value.results[h]

\* Batch r passed the size guard of processBatch.
Accepted(r) == reqs[r].route = "batch" /\ reqs[r].pc \in {"loop", "chunk"}

\* C27: a batch that passed the size guard eventually returns a response
\* with a result entry for every index, every item having settled.
C27_AcceptedBatchCompletes ==
    \A r \in {1} :
        Accepted(r) ~>
            (/\ Returned(r)
             /\ \A g \in 0..(NumItems(r) - 1) :
                   g \in DOMAIN reqs[r].ret.value.results /\ ItemSettled(r, g))

\* A batch of MaxItems items returned after retries in more than one chunk.
C27_Witness ==
    \E r \in BatchReqs :
        /\ Returned(r) /\ NumItems(r) = MaxItems
        /\ DOMAIN reqs[r].ret.value.results = 0..(MaxItems - 1)
        /\ \E g \in DOMAIN reqs[r].log : Len(reqs[r].log[g]) = MaxRetryAttempts
        /\ \E g \in DOMAIN reqs[r].log : Len(reqs[r].log[g]) = 1

\* The number of failed calls among calls.
RECURSIVE Failures(_)
Failures(calls) ==
    IF calls = <<>> THEN 0
    ELSE (IF calls[Len(calls)] = "ok" THEN 0 ELSE 1)
         + Failures(SubSeq(calls, 1, Len(calls) - 1))

ItemCalls ==
    {<<r, g, k>> \in (DOMAIN reqs) \X (0..(MaxRetxItems - 1)) \X (1..MaxRetryAttempts) :
        g \in DOMAIN reqs[r].keys /\ k \in DOMAIN reqs[r].keys[g]}
KeyOfCall(call) == reqs[call[1]].keys[call[2]][call[3]]

\* C29: the keys of any two createPayment calls made by batches differ
\* (other item, other attempt or other batch), none is the Idempotency-Key
\* of a request, and no call fails because its key or payment id is taken.
C29_FreshItemKeys ==
    /\ \A x, y \in ItemCalls : x # y => KeyOfCall(x) # KeyOfCall(y)
    /\ \A x \in ItemCalls : \A r \in DOMAIN reqs : KeyOfCall(x) # reqs[r].key
    /\ \A r \in DOMAIN reqs : \A g \in DOMAIN reqs[r].log :
          \A k \in DOMAIN reqs[r].log[g] : reqs[r].log[g][k] # "Validation error"

\* Two batches sent under one key both processed the same item, one of them
\* with a retry.
C29_Witness ==
    \E r1, r2 \in DOMAIN reqs :
        /\ r1 # r2 /\ reqs[r1].key = reqs[r2].key
        /\ 0 \in DOMAIN reqs[r1].keys /\ Len(reqs[r1].keys[0]) >= 2
        /\ 0 \in DOMAIN reqs[r2].keys
        /\ reqs[r1].log[0][Len(reqs[r1].log[0])] = "ok"
        /\ reqs[r2].log[0][Len(reqs[r2].log[0])] = "ok"

(* ------------------------ webhook responses --------------------------- *)
\* C26: simulateStatusUpdate answers 200 when updatePaymentStatus returned,
\* 404 with the message when it threw 'Payment not found', 422 with the
\* message naming the current and the requested status when it threw the
\* invalid-transition error, and for every other rejection (an Error or not)
\* 500 with a fixed body that holds nothing of the error.
C26_WebhookStatusCodes ==
    \A t \in DOMAIN treqs :
        treqs[t].pc = "responded" =>
            LET error == treqs[t].thrown
                resp == treqs[t].resp
            IN  IF error = <<>> THEN resp.code = 200
                ELSE IF error = <<"Payment not found">>
                THEN resp.code = 404 /\ resp.body.details = <<"Payment not found">>
                ELSE IF error[1] = "Invalid status transition from"
                THEN /\ resp.code = 422
                     /\ resp.body.details = <<"Invalid status transition from",
                                              treqs[t].oldStatus, "to", treqs[t].newStatus>>
                ELSE resp = [code |-> 500,
                             body |-> [error |-> "Internal server error",
                                       details |-> <<"Failed to update payment status">>]]

\* One request was answered 422 for paid -> paid, another 500 after a
\* rejection that is not an Error.
C26_Witness ==
    \E t1, t2 \in DOMAIN treqs :
        /\ treqs[t1].pc = "responded" /\ treqs[t1].resp.code = 422
        /\ treqs[t1].resp.body.details =
              <<"Invalid status transition from", "paid", "to", "paid">>
        /\ treqs[t2].pc = "responded" /\ treqs[t2].resp.code = 500
        /\ treqs[t2].thrown[1] = NotAnError

(* ------------------- when a record comes to exist --------------------- *)
\* C30: every idempotency row stored under the Idempotency-Key of a request
\* holds the result of a request with that key whose operation returned.
\* While none of the other requests with its key has returned a result (they
\* were rejected by validation, for the batch size, or failed to create the
\* payment, or are not finished), a request that passed the idempotency check
\* finds no record under its key, and no request is answered by a replay or
\* a conflict: it is executed.
C30_RecordOnlyAfterSuccess ==
    /\ \A row \in idemKeys :
          row.key.idx = -1 =>
              \E r \in DOMAIN reqs :
                  /\ reqs[r].key = row.key
                  /\ reqs[r].ret.kind = "value"
                  /\ row.requestHash = RequestHash(reqs[r].body)
                  /\ row.responseData = JSONStringify(reqs[r].ret.value)
    /\ \A r \in DOMAIN reqs :
          (/\ reqs[r].pc = "validate"
           /\ \A r1 \in DOMAIN reqs \ {r} :
                 reqs[r1].key = reqs[r].key => reqs[r1].ret.kind # "value")
              => ~\E row \in idemKeys : row.key = reqs[r].key
    /\ \A r \in DOMAIN reqs :
          (/\ reqs[r].pc = "done" /\ reqs[r].lookups = 1 /\ reqs[r].resp.code \in {200, 409}
           /\ reqs[r].ret = NoRet)
              => \E r1 \in DOMAIN reqs \ {r} :
                    reqs[r1].key = reqs[r].key /\ reqs[r1].ret.kind = "value"

\* Under one key a request was rejected by validation (an oversize batch or
\* an invalid body), and a creation then ran and was answered 201.
C30_Witness ==
    \E r1, r2 \in DOMAIN reqs :
        /\ r1 # r2 /\ reqs[r1].key = reqs[r2].key
        /\ reqs[r1].pc = "done" /\ reqs[r1].lookups = 1 /\ reqs[r1].resp.code = 400
        /\ reqs[r1].route = "batch"
        /\ Created(r2) /\ reqs[r2].lookups = 1

(* --------------------- one payment per client key --------------------- *)
\* C32: whatever creation requests are sent under a client key, whichever
\* record writes fail and whenever expired records are deleted, the payments
\* table holds at most one payment with that key and at most one request
\* with that key is answered 201.
C32_OnePaymentPerClientKey ==
    \A k \in ClientKeys :
        /\ Cardinality({p \in payments : p.idempotencyKey = k}) <= 1
        /\ Cardinality({r \in DOMAIN reqs :
                            reqs[r].key = k /\ reqs[r].resp.code = 201}) <= 1

\* A payment was created and its record replayed; a request that looked the
\* key up later found no record (it had expired and been deleted), ran, and
\* was refused: there is still one payment.
C32_Witness ==
    \E r1, r2, r3 \in DOMAIN reqs :
        /\ reqs[r1].key = reqs[r2].key /\ reqs[r1].key = reqs[r3].key
        /\ reqs[r1].resp.code = 201
        /\ reqs[r3].pc = "done" /\ reqs[r3].resp.code = 200
        /\ reqs[r2].pc = "done" /\ reqs[r2].resp.code = 500
        /\ reqs[r2].checkedAt > reqs[r3].checkedAt
        /\ Cardinality({p \in payments : p.idempotencyKey = reqs[r1].key}) = 1

(* ------------------------- expired records ---------------------------- *)
\* C37: a request that looks its key up while the table holds a record for
\* the key whose expiresAt has passed is answered from that record: 200 with
\* the stored response when the payload hash is the stored one, 409
\* otherwise.
C37_ExpiredRecordHonoured ==
    [][\A r \in DOMAIN reqs :
          \A row \in idemKeys :
              (/\ reqs[r].pc = "check" /\ reqs'[r].pc # "check"
               /\ row.key = reqs[r].key /\ row.expiresAt < clock)
                  => /\ reqs'[r].pc = "done"
                     /\ reqs'[r].resp =
                          IF row.requestHash = Sha256(JSONStringifyBody(reqs[r].body))
                          THEN [code |-> 200, body |-> row.responseData.json]
                          ELSE [code |-> 409, body |-> ConflictBody]]_vars

\* Looking the key up after the record's expiresAt, one request was answered
\* 200 with the stored payment and another, with a different payload, 409.
C37_Witness ==
    \E r1, r2 \in DOMAIN reqs, row \in idemKeys :
        /\ row.key = reqs[r1].key /\ row.key = reqs[r2].key
        /\ reqs[r1].pc = "done" /\ reqs[r1].checkedAt > row.expiresAt
        /\ reqs[r1].resp = [code |-> 200, body |-> row.responseData.json]
        /\ reqs[r2].pc = "done" /\ reqs[r2].checkedAt > row.expiresAt
        /\ reqs[r2].resp.code = 409

(* ------------------------- the history chain -------------------------- *)
\* C35: once the status updates sent for a payment have all returned, its
\* PaymentHistory rows in insertion order form a chain: the first has
\* oldStatus pending, each row's oldStatus is the newStatus of the row before
\* it, and the last row's newStatus is the status stored for the payment.
C35_HistoryIsChain ==
    (\A t \in DOMAIN treqs : treqs[t].pc = "done") =>
        \A p \in payments :
            LET rows == SelectSeq(histories, LAMBDA h : h.paymentId = p.id)
            IN  /\ Len(rows) > 0 => rows[1].oldStatus = "pending"
                /\ \A k \in 1..(Len(rows) - 1) : rows[k + 1].oldStatus = rows[k].newStatus
                /\ Len(rows) > 0 => rows[Len(rows)].newStatus = p.status
                /\ Len(rows) = 0 => p.status = "pending"

(* ------------------ paging over equal creation times ------------------ *)
\* C36: whatever creation times the payments have, equal ones included, a
\* client that lists from no cursor and follows nextCursor until none is
\* returned, no payment being created meanwhile, has received every payment
\* (of the status asked for).
C36_NoSkipOnEqualTimes ==
    \A c \in DOMAIN reqs :
        (reqs[c].pc = "done" /\ payments = reqs[c].first) =>
            \A row \in WithStatus(payments, c) :
                \E k \in DOMAIN Received(c) : Received(c)[k].id = row.id

(* ------------------ payments created by a batch run ------------------- *)
\* The payments request r inserted: those whose id one of its creation
\* attempts generated.
PaymentsOf(r) ==
    {p \in payments :
        \E idx \in 0..(NumItems(r) - 1), attempt \in 1..MaxRetryAttempts :
            p.id = Uuid(r, idx, attempt, 2)}

\* C34: when processBatch has returned, the payments it inserted number
\* `succeeded`; for every entry with a paymentId exactly one payment was
\* inserted for its item, the one named, and for every entry with an error
\* none was, however many attempts the item took.
C34_CreatedEqualsSucceeded ==
    \A r \in BatchReqs : Returned(r) =>
        LET res == reqs[r].ret.value
        IN  /\ Cardinality(PaymentsOf(r)) = res.succeeded
            /\ \A i \in DOMAIN res.results :
                  IF "paymentId" \in DOMAIN res.results[i]
                  THEN {p.id : p \in PaymentsOfItem(r, i)} = {res.results[i].paymentId}
                  ELSE PaymentsOfItem(r, i) = {}

\* Of three items one succeeded at its second attempt, one failed at every
\* attempt and one succeeded at once: two payments, succeeded = 2.
C34_Witness ==
    \E r \in BatchReqs :
        /\ Returned(r) /\ NumItems(r) = 3
        /\ reqs[r].log[0] = <<"Temporary failure", "ok">>
        /\ Len(reqs[r].log[1]) = MaxRetryAttempts /\ "ok" \notin {reqs[r].log[1][k] : k \in DOMAIN reqs[r].log[1]}
        /\ reqs[r].log[2] = <<"ok">>
        /\ reqs[r].ret.value.succeeded = 2
        /\ Cardinality(payments) = 2

(* --------------------- racing creation requests ----------------------- *)
\* The request was answered with a payment: created (201) or replayed (200).
AnsweredWithPayment(r) ==
    reqs[r].route = "create" /\ reqs[r].pc = "done" /\ reqs[r].resp.code \in {200, 201}

\* C33: of the creation requests sent with one key and one payload, however
\* they interleave, all those answered 201 or 200 are answered with the same
\* paymentId, that of the one payment stored under the key; the others are
\* answered with an error.
C33_RacersSeeOnePayment ==
    \A r1, r2 \in DOMAIN reqs :
        (/\ reqs[r1].key = reqs[r2].key /\ reqs[r1].body = reqs[r2].body
         /\ AnsweredWithPayment(r1) /\ reqs[r2].pc = "done")
            => /\ \E p \in payments : /\ p.idempotencyKey = reqs[r1].key
                                       /\ p.id = reqs[r1].resp.body.paymentId
               /\ IF AnsweredWithPayment(r2)
                  THEN reqs[r2].resp.body.paymentId = reqs[r1].resp.body.paymentId
                  ELSE reqs[r2].resp.code >= 400

\* Three requests with one key and payload: two passed the lookup before any
\* record existed, one created the payment (201) and the other was refused
\* (500); the third came after the record and was replayed the same payment.
C33_Witness ==
    \E r1, r2, r3 \in DOMAIN reqs :
        /\ reqs[r1].key = reqs[r2].key /\ reqs[r1].key = reqs[r3].key
        /\ reqs[r1].body = reqs[r2].body /\ reqs[r1].body = reqs[r3].body
        /\ reqs[r1].pc = "done" /\ reqs[r1].resp.code = 201
        /\ reqs[r2].pc = "done" /\ reqs[r2].resp.code = 500 /\ Calls(r2) = 1
        /\ reqs[r3].pc = "done" /\ reqs[r3].resp.code = 200
        /\ reqs[r3].resp.body.paymentId = reqs[r1].resp.body.paymentId

(* ------------------------ the stored snapshot ------------------------- *)
\* C38: a request answered by replay receives the response stored when the
\* payment was created, with the payment's id and the status pending,
\* whatever status the payment has by then; and no step removes or alters a
\* row of idempotency_keys.
C38_ReplayIsSnapshot ==
    [][/\ \A row \in idemKeys : row \in idemKeys'
       /\ \A r \in DOMAIN reqs :
             (reqs[r].pc = "check" /\ reqs'[r].pc = "done" /\ reqs'[r].resp.code = 200)
                 => \E p \in payments :
                       /\ p.idempotencyKey = reqs[r].key
                       /\ reqs'[r].resp.body = [paymentId |-> p.id, status |-> "pending",
                                                checkoutUrl |-> p.checkoutUrl]]_vars

\* The payment was moved to paid or further, and a request that looked the
\* key up after that was answered with the payment as pending.
C38_Witness ==
    \E r \in DOMAIN reqs, p \in payments :
        /\ p.idempotencyKey = reqs[r].key
        /\ p.status # "pending" /\ p.updatedAt < reqs[r].checkedAt
        /\ reqs[r].pc = "done" /\ reqs[r].resp.code = 200
        /\ reqs[r].resp.body.paymentId = p.id
        /\ reqs[r].resp.body.status = "pending"

(* --------------------------- frame of effects ------------------------- *)
\* The step is payment.update of a status update addressed to payment id.
IsUpdateOf(id) ==
    \E t \in DOMAIN treqs :
        treqs[t].pc = "update" /\ treqs'[t].pc = "history" /\ treqs[t].paymentId = id

\* C31: in every step of creation, batch, listing, status update or replay,
\* every payment stays in the table with all its fields, except that the
\* update step of updatePaymentStatus changes the status (and updatedAt) of
\* the payment it addresses; a payment that enters the table is pending; a
\* call of listPayments and a request answered by checkIdempotency leave the
\* three tables unchanged.
C31_PaymentsFrame ==
    [][/\ \A p \in payments :
             \E q \in payments' :
                 /\ q.id = p.id
                 /\ \/ q = p
                    \/ /\ IsUpdateOf(p.id)
                       /\ q = [p EXCEPT !.status = q.status, !.updatedAt = q.updatedAt]
       /\ \A q \in payments' :
             (\A p \in payments : p.id # q.id) => q.status = "pending"
       /\ \A r \in DOMAIN reqs :
             (reqs'[r] # reqs[r] /\ reqs[r].pc \in {"page", "check"})
                 => /\ payments' = payments
                    /\ histories' = histories
                    /\ idemKeys' = idemKeys]_vars

\* The first creation's payment was moved to paid while the batch's payment
\* stayed as created; the second creation request was replayed; the client
\* listed after the payment was paid.
C31_Witness ==
    /\ \E p, q \in payments :
          /\ p.id = Uuid(1, 0, 1, 2) /\ p.status = "paid"
          /\ q.id # p.id /\ q.status = "pending"
    /\ treqs[1].pc = "done"
    /\ reqs[2].pc = "done" /\ reqs[2].resp.code = 200
    /\ reqs[3].pc = "done"
    /\ Len(reqs[4].pages) >= 1
    /\ \E k \in DOMAIN reqs[4].pages[1].items : reqs[4].pages[1].items[k].status = "paid"

====
